---- MODULE Spec2Model ----
(***************************************************************************)
(* Chat-analysis pipeline of Clip_PNJ_V2.                                  *)
(*                                                                         *)
(*   src/lib/twitchChat.ts          fetchCommentPage, iterateChat          *)
(*   src/app/api/analyze/route.ts   POST (the analysis handler)            *)
(*   src/unnamed/part_002           BucketAccumulator                      *)
(*                                                                         *)
(* JavaScript strings are modelled as sequences of one-character strings,  *)
(* so that toLowerCase, includes, slice and join are computed and not      *)
(* assumed.  "null"/"undefined" of a string-valued slot is the value Null. *)
(***************************************************************************)
EXTENDS Integers, Sequences, FiniteSets, TLC

(* ----------------------------------------------------------------------- *)
(* Bounds of the model                                                     *)
(* ----------------------------------------------------------------------- *)

\* opts.maxPages given to iterateChat ranges over 1..MaxPagesBound (the
\* analyze route passes MAX_PAGES = 15000, the search route 10000).
MaxPagesBound == 2

\* The wall clock is followed up to this many milliseconds after startTime.
MaxElapsedMs == 260000

\* Length of the filler in front of the word "timeout" in the long body.
LongFill == 196

(* ----------------------------------------------------------------------- *)
(* Program constants                                                       *)
(* ----------------------------------------------------------------------- *)

MAX_RETRIES == 3
RETRY_BASE_MS == 1000
BODY_EXCERPT_LEN == 200
ANALYSIS_TIMEOUT_MS == 180000
WINDOW_SEC == 30

\* One network round trip takes 0 ms or LatencyMs (what the clock shows).
LatencyMs == 100000

Null == "<null>"

(* ----------------------------------------------------------------------- *)
(* Strings                                                                 *)
(* ----------------------------------------------------------------------- *)

UPPER == <<"A","B","C","D","E","F","G","H","I","J","K","L","M","N","O","P","Q","R","S","T","U","V","W","X","Y","Z">>
LOWER == <<"a","b","c","d","e","f","g","h","i","j","k","l","m","n","o","p","q","r","s","t","u","v","w","x","y","z">>

LowerChar(c) ==
  IF \E i \in 1..Len(UPPER) : UPPER[i] = c
  THEN LOWER[CHOOSE i \in 1..Len(UPPER) : UPPER[i] = c]
  ELSE c

\* String.prototype.toLowerCase
ToLowerCase(s) == [i \in 1..Len(s) |-> LowerChar(s[i])]

\* String.prototype.includes
Includes(s, sub) ==
  \E i \in 0..(Len(s) - Len(sub)) : SubSeq(s, i + 1, i + Len(sub)) = sub

\* String.prototype.slice(0, n)
Slice0(s, n) == SubSeq(s, 1, IF Len(s) < n THEN Len(s) ELSE n)

Digit(d) == <<"0","1","2","3","4","5","6","7","8","9">>[d + 1]

\* Template-literal conversion of a non-negative integer to decimal text.
RECURSIVE DecStr(_)
DecStr(n) == IF n < 10 THEN <<Digit(n)>> ELSE DecStr(n \div 10) \o <<Digit(n % 10)>>

\* Array.prototype.join
RECURSIVE Join(_, _)
Join(parts, sep) ==
  IF Len(parts) = 0 THEN <<>>
  ELSE IF Len(parts) = 1 THEN parts[1]
  ELSE parts[1] \o sep \o Join(Tail(parts), sep)

Rep(c, n) == [i \in 1..n |-> c]

HTTP_ERR_PREFIX == <<"T","w","i","t","c","h"," ","G","Q","L"," ","A","P","I"," ","r","e","t","u","r","n","e","d"," ">>
GQL_ERR_PREFIX == <<"T","w","i","t","c","h"," ","G","Q","L"," ","e","r","r","o","r",":"," ">>
FAILED_PREFIX == <<"F","a","i","l","e","d"," ","t","o"," ","f","e","t","c","h"," ","c","h","a","t",":"," ">>
TIMED_OUT == <<"A","n","a","l","y","s","i","s"," ","t","i","m","e","d"," ","o","u","t">>
W_TIMEOUT == <<"t","i","m","e","o","u","t">>
W_RATE == <<"r","a","t","e">>
W_503 == <<"5","0","3">>
W_502 == <<"5","0","2">>

(* ----------------------------------------------------------------------- *)
(* Errors                                                                  *)
(* ----------------------------------------------------------------------- *)

NoError == [name |-> "none", message |-> <<>>]
MkError(msg) == [name |-> "Error", message |-> msg]
AnalysisTimeoutError == [name |-> "AnalysisTimeoutError", message |-> TIMED_OUT]

\* A transient word somewhere in the text, in any letter case.
HasTransientWord(text) ==
  LET msg == ToLowerCase(text)
  IN  Includes(msg, W_TIMEOUT) \/ Includes(msg, W_RATE)
        \/ Includes(msg, W_503) \/ Includes(msg, W_502)

isRetryable(err) ==
  IF err.name # "none"
  THEN LET msg == ToLowerCase(err.message)
       IN  Includes(msg, W_TIMEOUT) \/ Includes(msg, W_RATE)
             \/ Includes(msg, W_503) \/ Includes(msg, W_502)
  ELSE FALSE

RetryableStatus(status) == status = 502 \/ status = 503 \/ status = 429

HttpError(status, body) ==
  MkError(HTTP_ERR_PREFIX \o DecStr(status) \o <<":", " ">> \o Slice0(body, BODY_EXCERPT_LEN))

GqlError(errors) ==
  MkError(GQL_ERR_PREFIX \o Join(errors, <<";", " ">>))

(* ----------------------------------------------------------------------- *)
(* What the comment feed can answer to one request                         *)
(* ----------------------------------------------------------------------- *)

NoErrors == [present |-> FALSE, list |-> <<>>]
Errors(list) == [present |-> TRUE, list |-> list]
NoComments == [present |-> FALSE, edges |-> <<>>, hasNextPage |-> FALSE]
Comments(edges, more) == [present |-> TRUE, edges |-> edges, hasNextPage |-> more]

Frag(text, emote) == [text |-> text, emote |-> emote]
Edge(cur, off, name, frags) ==
  [cursor |-> cur, contentOffsetSeconds |-> off, displayName |-> name, fragments |-> frags]

E1 == Edge("c1", 10, "ann", <<Frag(<<"h","i">>, Null)>>)
E2 == Edge("c2", 29, Null, <<Frag(<<"L","U","L">>, "425618"), Frag(<<" ","g","g">>, Null)>>)
E3 == Edge("", 31, "bob", <<Frag(<<"l","o","l">>, Null)>>)
E4 == Edge("c1", 65, "cy", <<Frag(<<"P","O","G">>, Null)>>)

\* fetch rejected: connection, DNS or TLS failure
Rejected(msg) ==
  [kind |-> "reject", status |-> 0, body |-> <<>>, message |-> msg,
   errors |-> NoErrors, comments |-> NoComments]
\* a response with res.ok false
Http(status, body) ==
  [kind |-> "http", status |-> status, body |-> body, message |-> <<>>,
   errors |-> NoErrors, comments |-> NoComments]
\* a 2xx response whose body is not JSON: res.json() throws
BadJson(msg) ==
  [kind |-> "badjson", status |-> 200, body |-> <<>>, message |-> msg,
   errors |-> NoErrors, comments |-> NoComments]
\* a 2xx response; errors and comments are the fields of json[0]
Json(errors, comments) ==
  [kind |-> "json", status |-> 200, body |-> <<>>, message |-> <<>>,
   errors |-> errors, comments |-> comments]

FETCH_FAILED == <<"f","e","t","c","h"," ","f","a","i","l","e","d">>
CONNECT_TIMEOUT == <<"C","o","n","n","e","c","t"," ","T","i","m","e","o","u","t"," ","E","r","r","o","r">>
BAD_JSON == <<"U","n","e","x","p","e","c","t","e","d"," ","t","o","k","e","n"," ","<"," ","i","n"," ","J","S","O","N">>
RATE_BODY == <<"R","a","t","e"," ","l","i","m","i","t">>
NOT_FOUND_BODY == <<"n","o","t"," ","f","o","u","n","d">>
SVC_TIMEOUT == <<"s","e","r","v","i","c","e"," ","t","i","m","e","o","u","t">>
PQ_NOT_FOUND == <<"P","e","r","s","i","s","t","e","d","Q","u","e","r","y","N","o","t","F","o","u","n","d">>
RATE_EXCEEDED == <<"R","A","T","E"," ","e","x","c","e","e","d","e","d">>
\* longer than the excerpt: the word "timeout" straddles character 200
LongBody == Rep("x", LongFill) \o W_TIMEOUT

PageA == Comments(<<E1>>, TRUE)
PageB == Comments(<<E1, E2>>, TRUE)
PageC == Comments(<<E4, E2>>, FALSE)
PageD == Comments(<<E3>>, TRUE)
PageEmpty == Comments(<<>>, TRUE)

Responses ==
  { Rejected(FETCH_FAILED), Rejected(CONNECT_TIMEOUT),
    Http(429, <<>>), Http(502, NOT_FOUND_BODY), Http(503, LongBody),
    Http(404, NOT_FOUND_BODY), Http(404, LongBody), Http(500, RATE_BODY),
    BadJson(BAD_JSON),
    Json(Errors(<<SVC_TIMEOUT>>), NoComments),
    Json(Errors(<<PQ_NOT_FOUND>>), NoComments),
    Json(Errors(<<PQ_NOT_FOUND, RATE_EXCEEDED>>), NoComments),
    Json(Errors(<<>>), PageA),
    Json(NoErrors, NoComments), Json(NoErrors, PageEmpty),
    Json(NoErrors, PageA), Json(NoErrors, PageB),
    Json(NoErrors, PageC), Json(NoErrors, PageD) }

Latencies == {0, LatencyMs}

(* ----------------------------------------------------------------------- *)
(* fetchCommentPage: pure parts                                            *)
(* ----------------------------------------------------------------------- *)

NoOffset == 0 - 1

\* a cursor string is truthy unless it is absent or empty
Truthy(cur) == cur # Null /\ cur # ""

\* The variables of the request payload: which position markers it carries.
VariablesBoth(cur, offsetSeconds) ==
  [keys |-> {"videoID", "cursor", "contentOffsetSeconds"},
   cursor |-> cur,
   contentOffsetSeconds |-> IF offsetSeconds = NoOffset THEN 0 ELSE offsetSeconds]

Variables(cur, offsetSeconds) ==
  IF Truthy(cur)
  THEN [keys |-> {"videoID", "cursor"}, cursor |-> cur, contentOffsetSeconds |-> NoOffset]
  ELSE [keys |-> {"videoID", "contentOffsetSeconds"}, cursor |-> Null,
        contentOffsetSeconds |-> IF offsetSeconds = NoOffset THEN 0 ELSE offsetSeconds]

RECURSIVE Pow2(_)
Pow2(n) == IF n = 0 THEN 1 ELSE 2 * Pow2(n - 1)

BackoffLinear(attempt) == RETRY_BASE_MS * attempt

\* the sleep in front of attempt number `attempt` (attempt > 0)
BackoffMs(attempt) == RETRY_BASE_MS * Pow2(attempt - 1)

\* edge -> ChatMessage
ToMessage(edge) ==
  [offsetSeconds |-> edge.contentOffsetSeconds,
   author |-> IF edge.displayName = Null THEN "" ELSE edge.displayName,
   fragments |-> edge.fragments,
   text |-> Join([i \in 1..Len(edge.fragments) |-> edge.fragments[i].text], <<>>)]

EmptyPage == [messages |-> <<>>, nextCursor |-> Null]

\* decoding of data.video.comments into {messages, nextCursor}
Decode(comments) ==
  IF ~comments.present \/ Len(comments.edges) = 0
  THEN EmptyPage
  ELSE [messages |-> [i \in 1..Len(comments.edges) |-> ToMessage(comments.edges[i])],
        nextCursor |-> IF comments.hasNextPage
                       THEN comments.edges[Len(comments.edges)].cursor
                       ELSE Null]

Continue(err) == [tag |-> "continue", error |-> err, page |-> EmptyPage]
Throw(err) == [tag |-> "throw", error |-> err, page |-> EmptyPage]
Return(page) == [tag |-> "return", error |-> NoError, page |-> page]

\* The body of the try block for one response.
TryBlock(attempt, resp) ==
  CASE resp.kind = "reject" -> Throw(MkError(resp.message))
    [] resp.kind = "http" ->
         LET err == HttpError(resp.status, resp.body)
         IN  IF attempt < MAX_RETRIES /\ RetryableStatus(resp.status)
             THEN Continue(err) ELSE Throw(err)
    [] resp.kind = "badjson" -> Throw(MkError(resp.message))
    [] OTHER ->
         IF resp.errors.present   \* an array, also an empty one, is truthy
         THEN LET err == GqlError(resp.errors.list)
              IN  IF attempt < MAX_RETRIES /\ isRetryable(err)
                  THEN Continue(err) ELSE Throw(err)
         ELSE Return(Decode(resp.comments))

\* The catch clause, applied to what the try block did.
CatchBlock(attempt, r) ==
  IF r.tag = "throw"
  THEN IF attempt < MAX_RETRIES /\ isRetryable(r.error)
       THEN Continue(r.error) ELSE Throw(r.error)
  ELSE r

\* One iteration of the retry loop from the arrival of the response on.
Attempt(attempt, resp) == CatchBlock(attempt, TryBlock(attempt, resp))

(* ----------------------------------------------------------------------- *)
(* Regular expressions, as far as the scorer uses them                     *)
(* ----------------------------------------------------------------------- *)

\* A code unit outside ASCII is written "u" followed by its hexadecimal value.
EURO == "u20AC"

WordChars ==
  {UPPER[i] : i \in 1..Len(UPPER)} \cup {LOWER[i] : i \in 1..Len(LOWER)}
    \cup {Digit(d) : d \in 0..9} \cup {"_"}
DigitChars == {Digit(d) : d \in 0..9}
SpaceChars == {" ", "\t", "\n"}

UpperChar(c) ==
  IF \E i \in 1..Len(LOWER) : LOWER[i] = c
  THEN UPPER[CHOOSE i \in 1..Len(LOWER) : LOWER[i] = c]
  ELSE c

\* String.prototype.toUpperCase
ToUpperCase(s) == [i \in 1..Len(s) |-> UpperChar(s[i])]

\* String.prototype.trim
RECURSIVE TrimStart(_)
TrimStart(s) ==
  IF Len(s) > 0 /\ Head(s) \in SpaceChars THEN TrimStart(Tail(s)) ELSE s
RECURSIVE TrimEnd(_)
TrimEnd(s) ==
  IF Len(s) > 0 /\ s[Len(s)] \in SpaceChars
  THEN TrimEnd(SubSeq(s, 1, Len(s) - 1)) ELSE s
Trim(s) == TrimEnd(TrimStart(s))

\* The syntax of a pattern: one character of a set, \b, a sequence, an
\* alternation, and the star; the other forms are built from these.
OneOf(set) == [op |-> "chr", set |-> set]
Chr(c) == OneOf({c})
WordB == [op |-> "wordb"]
Cat(parts) == [op |-> "cat", parts |-> parts]
Alt(parts) == [op |-> "alt", parts |-> parts]
Star(re) == [op |-> "star", re |-> re]
Opt(re) == Alt(<<Cat(<<>>), re>>)
Plus(re) == Cat(<<re, Star(re)>>)
TwoOrMore(re) == Cat(<<re, re, Star(re)>>)
Lit(s) == Cat([i \in 1..Len(s) |-> Chr(s[i])])
Spaces == Star(OneOf(SpaceChars))
Digits == Plus(OneOf(DigitChars))

IsWordAt(text, p) == p >= 1 /\ p <= Len(text) /\ text[p] \in WordChars

\* The positions at which a match of re that starts at a position of S can
\* end (a position is the index of the next character to read).
RECURSIVE Ends(_, _, _)
Ends(re, text, S) ==
  CASE re.op = "chr" ->
         {p + 1 : p \in {q \in S : q <= Len(text) /\ text[q] \in re.set}}
    [] re.op = "wordb" ->
         {p \in S : IsWordAt(text, p - 1) # IsWordAt(text, p)}
    [] re.op = "cat" ->
         IF Len(re.parts) = 0 THEN S
         ELSE Ends(Cat(Tail(re.parts)), text, Ends(Head(re.parts), text, S))
    [] re.op = "alt" ->
         UNION {Ends(re.parts[i], text, S) : i \in 1..Len(re.parts)}
    [] re.op = "star" ->
         LET T == S \cup Ends(re.re, text, S)
         IN  IF T = S THEN S ELSE Ends(re, text, T)

\* RegExp.prototype.test of a pattern without the g flag; k.i is the i flag
\* (the pattern is then written in lower case).
Test(k, text) ==
  LET t == IF k.i THEN ToLowerCase(text) ELSE text
  IN  Ends(k.re, t, 1..(Len(t) + 1)) # {}

\* /x/i and /x/
ReI(re) == [re |-> re, i |-> TRUE]
Re(re) == [re |-> re, i |-> FALSE]
\* /\bx\b/i
Word(re) == ReI(Cat(<<WordB, re, WordB>>))

(* ----------------------------------------------------------------------- *)
(* CATEGORY_PATTERNS                                                       *)
(* ----------------------------------------------------------------------- *)

\* Object.keys(CATEGORY_PATTERNS), in insertion order
Categories == <<"fun", "hype", "ban", "sub", "donation">>

HAS_BEEN_BANNED == <<"h","a","s"," ","b","e","e","n"," ","b","a","n","n","e","d">>
IS_GIFTING == <<"i","s"," ","g","i","f","t","i","n","g">>

FunKeywords ==
  << Word(Lit(<<"m","d","r">>)),
     Word(Lit(<<"p","t","d","r">>)),
     Word(Lit(<<"x","p","t","d","r">>)),
     Word(Cat(<<Lit(<<"m","o","r","t">>), Spaces, Lit(<<"d","e">>), Spaces,
                Lit(<<"r","i","r","e">>)>>)),
     Word(Lit(<<"j","p","p">>)),
     Word(Lit(<<"l","m","a","o">>)),
     Word(Lit(<<"l","m","f","a","o">>)),
     Word(Lit(<<"r","o","f","l">>)),
     ReI(Cat(<<Lit(<<"h","a">>), TwoOrMore(Lit(<<"h","a">>))>>)),
     ReI(Cat(<<Lit(<<"h","e">>), TwoOrMore(Lit(<<"h","e">>))>>)),
     Re(Cat(<<Chr("x"), TwoOrMore(OneOf({"d", "D"}))>>)),
     Re(Alt(<<Lit(<<"uD83D","uDE02">>), Lit(<<"uD83E","uDD23">>)>>)) >>

HypeKeywords ==
  << Word(Cat(<<Lit(<<"l","e","t">>), Opt(Chr("s")), Spaces, Chr("g"),
                Plus(Chr("o"))>>)),
     Word(Cat(<<Lit(<<"l","e","t">>), Opt(Chr("'")), Chr("s"), Spaces, Chr("g"),
                Plus(Chr("o"))>>)),
     Word(Cat(<<Lit(<<"p","o","g">>), Opt(Lit(<<"g","e","r","s">>))>>)),
     Word(Cat(<<Lit(<<"c","l","i","p">>), Spaces,
                Alt(<<Lit(<<"i","t">>), Lit(<<"t","h","a","t">>),
                      Lit(<<"t","h","i","s">>)>>)>>)),
     Word(Lit(<<"i","n","s","a","n","e">>)),
     Word(Cat(<<Lit(<<"g","o","d">>), Spaces,
                Alt(<<Lit(<<"l","i","k","e">>), Lit(<<"t","i","e","r">>)>>)>>)),
     Word(Lit(<<"o","m","g">>)),
     Word(Lit(<<"w","t","f">>)),
     Word(Cat(<<Lit(<<"h","o","l","y">>), Spaces,
                Alt(<<Lit(<<"s","h","i","t">>), Lit(<<"c","o","w">>),
                      Lit(<<"m","o","l","y">>), Plus(Chr("f"))>>)>>)),
     Word(Cat(<<Lit(<<"n","o">>), Spaces, Lit(<<"w","a","y">>)>>)),
     Re(Alt(<<Lit(<<"uD83D","uDD25">>), Lit(<<"uD83D","uDE31">>)>>)) >>

BanKeywords == << ReI(Lit(HAS_BEEN_BANNED)) >>

SubKeywords == << ReI(Lit(IS_GIFTING)) >>

DonationKeywords ==
  << ReI(Cat(<<WordB, Lit(<<"c","h","e","e","r">>), Digits>>)),
     Word(Lit(<<"b","i","t","s">>)),
     Word(Cat(<<Lit(<<"d","o","n">>),
                Alt(<<Chr("o"),
                      Cat(<<Lit(<<"a","t">>),
                            Alt(<<Chr("e"), Lit(<<"i","o","n">>),
                                  Lit(<<"e","d">>)>>)>>)>>)>>)),
     Re(Cat(<<Chr("$"), Spaces, Digits>>)),
     Re(Cat(<<WordB, Digits, Spaces, Chr(EURO)>>)),
     Re(Alt(<<Lit(<<"uD83D","uDCB0">>), Lit(<<"uD83D","uDCB5">>),
              Lit(<<"uD83D","uDCB2">>), Lit(<<"uD83D","uDC8E">>),
              Lit(<<"uD83C","uDF81">>), Lit(<<"uD83D","uDCB8">>),
              Lit(<<"uD83E","uDD11">>)>>)) >>

FunEmotes ==
  { <<"L","U","L">>, <<"L","U","L","W">>, <<"O","M","E","G","A","L","U","L">>,
    <<"K","E","K","W">>, <<"I","C","A","N","T">>,
    <<"p","e","p","e","L","a","u","g","h">>,
    <<"E","l","e","G","i","g","g","l","e">>, <<"4","H","e","a","d">> }

HypeEmotes ==
  { <<"P","o","g","C","h","a","m","p">>, <<"P","o","g">>, <<"P","o","g","U">>,
    <<"P","O","G","G","I","E","S">>, <<"P","O","G","C","R","A","Z","Y">>,
    <<"K","r","e","y","g","a","s","m">>, <<"H","Y","P","E","R","S">>,
    <<"g","a","c","h","i","G","A","S","M">>, <<"m","o","n","k","a","S">>,
    <<"m","o","n","k","a","W">>, <<"W","u","t","F","a","c","e">> }

BanEmotes == { <<"c","r","a","b","r","a","v","e">>, <<"c","r","a","b","P","l","s">> }

SubEmotes == {}

DonationEmotes == { <<"H","y","p","e","C","h","e","e","r">> }

CATEGORY_PATTERNS ==
  [fun |-> [keywords |-> FunKeywords, emoteNames |-> FunEmotes],
   hype |-> [keywords |-> HypeKeywords, emoteNames |-> HypeEmotes],
   ban |-> [keywords |-> BanKeywords, emoteNames |-> BanEmotes],
   sub |-> [keywords |-> SubKeywords, emoteNames |-> SubEmotes],
   donation |-> [keywords |-> DonationKeywords, emoteNames |-> DonationEmotes]]

(* ----------------------------------------------------------------------- *)
(* scoreMessage                                                            *)
(* ----------------------------------------------------------------------- *)

\* Scores are kept in half points, the ALL-CAPS bonus being 0.5: Pts(n) is
\* the score of n points.  emoteCount is a plain count.
Pts(n) == 2 * n

CategorySet == {Categories[i] : i \in 1..Len(Categories)}

MinOf(S) == CHOOSE x \in S : \A y \in S : x <= y
MaxOf(S) == CHOOSE x \in S : \A y \in S : y <= x

DigitVal(c) == CHOOSE d \in 0..9 : Digit(d) = c

\* parseInt(digits, 10) of a run of decimal digits
RECURSIVE ParseInt(_)
ParseInt(digits) ==
  IF Len(digits) = 0 THEN 0
  ELSE 10 * ParseInt(SubSeq(digits, 1, Len(digits) - 1)) + DigitVal(digits[Len(digits)])

GIFT_RE == Cat(<<Lit(IS_GIFTING), Chr(" "), Digits>>)

\* text.match(/is gifting (\d+)/i): the leftmost match, its group taking all
\* the digits that follow; parseInt(giftMatch[1], 10) is kept as count.
GiftMatch(text) ==
  LET t == ToLowerCase(text)
      starts == {i \in 1..Len(t) : Ends(GIFT_RE, t, {i}) # {}}
  IN  IF starts = {} THEN [present |-> FALSE, count |-> 0]
      ELSE LET i == MinOf(starts)
               e == MaxOf(Ends(GIFT_RE, t, {i}))
           IN  [present |-> TRUE,
                count |-> ParseInt(SubSeq(t, i + Len(IS_GIFTING) + 1, e - 1))]

\* Math.min(Math.round(count * 0.6), 20); count * 0.6 is never half-way
GiftBonus(count) ==
  IF (6 * count + 5) \div 10 < 20 THEN (6 * count + 5) \div 10 ELSE 20

\* The category an emote fragment is credited to, "none" if there is none.
EmoteCategory(frag) ==
  IF frag.emote = Null THEN "none"
  ELSE LET emoteName == Trim(frag.text)
           hits == {i \in 1..Len(Categories) :
                      emoteName \in CATEGORY_PATTERNS[Categories[i]].emoteNames}
       IN  IF hits = {} THEN "none" ELSE Categories[MinOf(hits)]

EmoteHits(msg, cat) ==
  Cardinality({i \in 1..Len(msg.fragments) : EmoteCategory(msg.fragments[i]) = cat})

\* The keyword loop credits cat: sub is skipped without a gift of 15 or more.
KeywordHitAny(cat, text, giftMatch) ==
  \E i \in 1..Len(CATEGORY_PATTERNS[cat].keywords) :
     Test(CATEGORY_PATTERNS[cat].keywords[i], text)

KeywordHit(cat, text, giftMatch) ==
  /\ ~(cat = "sub" /\ giftMatch.present /\ giftMatch.count < 15)
  /\ ~(cat = "sub" /\ ~giftMatch.present)
  /\ \E i \in 1..Len(CATEGORY_PATTERNS[cat].keywords) :
        Test(CATEGORY_PATTERNS[cat].keywords[i], text)

\* text.length >= 5 && text === text.toUpperCase() && /[A-Z]/.test(text)
AllCaps(text) ==
  /\ Len(text) >= 5
  /\ text = ToUpperCase(text)
  /\ \E i \in 1..Len(text) : \E j \in 1..Len(UPPER) : text[i] = UPPER[j]

\* scoreMessage with the bonus of capitals left out of the categories
scoreMessageCapsApart(msg) ==
  LET text == msg.text
      banned == Test(ReI(Lit(HAS_BEEN_BANNED)), text)
      giftMatch == GiftMatch(text)
      bonus == IF giftMatch.present /\ giftMatch.count >= 15
               THEN GiftBonus(giftMatch.count) ELSE 0
      emotes == [cat \in CategorySet |-> EmoteHits(msg, cat)]
      emoteCount == Cardinality({i \in 1..Len(msg.fragments) :
                                   EmoteCategory(msg.fragments[i]) # "none"})
      words == {cat \in CategorySet : KeywordHit(cat, text, giftMatch)}
      caps == IF AllCaps(text) THEN 1 ELSE 0
  IN  [reactionScore |->
         (IF banned THEN Pts(15) ELSE 0) + Pts(bonus) + Pts(2) * emoteCount
           + Pts(1) * Cardinality(words) + caps,
       emoteCount |-> emoteCount,
       categories |->
         [cat \in CategorySet |->
            (IF cat = "ban" /\ banned THEN Pts(15) ELSE 0)
              + (IF cat = "sub" THEN Pts(bonus) ELSE 0)
              + Pts(2) * emotes[cat]
              + (IF cat \in words THEN Pts(1) ELSE 0)
              + 0]]

scoreMessage(msg) ==
  LET text == msg.text
      banned == Test(ReI(Lit(HAS_BEEN_BANNED)), text)
      giftMatch == GiftMatch(text)
      bonus == IF giftMatch.present /\ giftMatch.count >= 15
               THEN GiftBonus(giftMatch.count) ELSE 0
      emotes == [cat \in CategorySet |-> EmoteHits(msg, cat)]
      emoteCount == Cardinality({i \in 1..Len(msg.fragments) :
                                   EmoteCategory(msg.fragments[i]) # "none"})
      words == {cat \in CategorySet : KeywordHit(cat, text, giftMatch)}
      caps == IF AllCaps(text) THEN 1 ELSE 0
  IN  [reactionScore |->
         (IF banned THEN Pts(15) ELSE 0) + Pts(bonus) + Pts(2) * emoteCount
           + Pts(1) * Cardinality(words) + caps,
       emoteCount |-> emoteCount,
       categories |->
         [cat \in CategorySet |->
            (IF cat = "ban" /\ banned THEN Pts(15) ELSE 0)
              + (IF cat = "sub" THEN Pts(bonus) ELSE 0)
              + Pts(2) * emotes[cat]
              + (IF cat \in words THEN Pts(1) ELSE 0)
              + (IF cat = "hype" THEN caps ELSE 0)]]

(* ----------------------------------------------------------------------- *)
(* State                                                                   *)
(* ----------------------------------------------------------------------- *)

VARIABLES
  pc,                 \* where the handler / iterator / adapter stands
  maxPages,           \* opts.maxPages of iterateChat
  startOffsetSeconds, \* opts.startOffsetSeconds of iterateChat, NoOffset if absent
  cursor,             \* iterateChat: cursor (Null when undefined)
  pagesProcessed,     \* iterateChat: pagesProcessed
  lastOffset,         \* iterateChat: lastOffset
  variables,          \* fetchCommentPage: the payload's variables
  attempt,            \* fetchCommentPage: attempt
  lastError,          \* fetchCommentPage: lastError
  inFlight,           \* TRUE while a request awaits its response
  page,               \* the page the last fetchCommentPage call returned
  windowSec,          \* BucketAccumulator: windowSec
  buckets,            \* BucketAccumulator: buckets (the bucket map)
  elapsed,            \* Date.now() - startTime
  cbThrown,           \* what the last onBatch call threw (NoError: returned)
  iterResult,         \* how iterateChat settled
  opts,               \* the options findHypeMoments was called with
  moments,            \* what findHypeMoments returned (<<>> before the call)
  response,           \* the handler's HTTP response
  \* history of the run, read by the properties only
  fetchCalls,         \* number of fetchCommentPage calls so far
  reqLog,             \* the variables of each request of the current call
  waits,              \* the sleeps of the current call, in order
  lastResp,           \* the last response received
  lastAttempt,        \* the attempt number lastResp answered
  statusRetries,      \* responses with status 429, 502 or 503 of the call in
                      \* progress or just settled (0 once its page is taken up)
  prevNext,           \* nextCursor of the page held when the current call began
  fetched,            \* the message lists returned by the calls, in order
  delivered,          \* the message lists passed to onBatch, in order
  \* the clip route and its semaphore
  maxConcurrentEnv,   \* process.env.MAX_CONCURRENT
  max,                \* Semaphore: max
  current,            \* Semaphore: current
  queue,              \* Semaphore: queue, each closure named by its request
  clips,              \* where each POST /api/clip stands, and what it returned
  asked,              \* history: the requests in the order of their acquire calls
  grants              \* history: the requests in the order their acquire resolved

vars == <<pc, maxPages, startOffsetSeconds, cursor, pagesProcessed, lastOffset,
          variables, attempt, lastError, inFlight, page, buckets, elapsed,
          cbThrown, iterResult, response, fetchCalls, reqLog, waits, lastResp,
          lastAttempt, statusRetries, prevNext, fetched, delivered,
          windowSec, opts, moments,
          maxConcurrentEnv, max, current, queue, clips, asked, grants>>

semVars == <<maxConcurrentEnv, max, current, queue, clips, asked, grants>>

iterVars == <<maxPages, startOffsetSeconds, cursor, pagesProcessed, lastOffset>>
handlerVars == <<buckets, cbThrown, iterResult, response, delivered>>
detectVars == <<windowSec, opts, moments>>

(* ----------------------------------------------------------------------- *)
(* BucketAccumulator                                                       *)
(* ----------------------------------------------------------------------- *)

\* the key with Math.round in the place of Math.floor
BucketKeyRound(offsetSeconds) ==
  ((2 * offsetSeconds + windowSec) \div (2 * windowSec)) * windowSec

\* Math.floor(offsetSeconds / this.windowSec) * this.windowSec
BucketKey(offsetSeconds) == (offsetSeconds \div windowSec) * windowSec

NewBucket(key) ==
  [startSec |-> key, messageCount |-> 0, reactionScore |-> 0, emoteCount |-> 0,
   categoryScores |-> [cat \in CategorySet |-> 0],
   messageTimestamps |-> <<>>, sampleMessages |-> <<>>]

SAMPLE_LEN == 80
MAX_SAMPLES == 10

\* the sample rule without the test of the score
SamplesAll(samples, msg, score) ==
  IF Len(samples) < MAX_SAMPLES
  THEN Append(samples, Slice0(msg.text, SAMPLE_LEN)) ELSE samples

\* if (reactionScore > 0 && bucket.sampleMessages.length < 10)
\*   bucket.sampleMessages.push(msg.text.slice(0, 80))
Samples(samples, msg, score) ==
  IF score.reactionScore > 0 /\ Len(samples) < MAX_SAMPLES
  THEN Append(samples, Slice0(msg.text, SAMPLE_LEN)) ELSE samples

\* addMessage storing the score of the message in the place of the sum
addMessageAssign(bs, msg) ==
  LET key == BucketKey(msg.offsetSeconds)
      b == IF key \in DOMAIN bs THEN bs[key] ELSE NewBucket(key)
      score == scoreMessage(msg)
  IN  (key :> [b EXCEPT !.messageCount = @ + 1,
                        !.messageTimestamps = Append(@, msg.offsetSeconds),
                        !.reactionScore = score.reactionScore,
                        !.emoteCount = @ + score.emoteCount,
                        !.categoryScores =
                           [cat \in CategorySet |-> @[cat] + score.categories[cat]],
                        !.sampleMessages = Samples(@, msg, score)]) @@ bs

\* addMessage of an accumulator that never goes back to an earlier bucket
addMessageForward(bs, msg) ==
  LET late == {k \in DOMAIN bs : k > BucketKey(msg.offsetSeconds)}
      key == IF late = {} THEN BucketKey(msg.offsetSeconds) ELSE MaxOf(late)
      b == IF key \in DOMAIN bs THEN bs[key] ELSE NewBucket(key)
      score == scoreMessage(msg)
  IN  (key :> [b EXCEPT !.messageCount = @ + 1,
                        !.messageTimestamps = Append(@, msg.offsetSeconds),
                        !.reactionScore = @ + score.reactionScore,
                        !.emoteCount = @ + score.emoteCount,
                        !.categoryScores =
                           [cat \in CategorySet |-> @[cat] + score.categories[cat]],
                        !.sampleMessages = Samples(@, msg, score)]) @@ bs

\* addMessage on the bucket map
addMessage(bs, msg) ==
  LET key == BucketKey(msg.offsetSeconds)
      b == IF key \in DOMAIN bs THEN bs[key] ELSE NewBucket(key)
      score == scoreMessage(msg)
  IN  (key :> [b EXCEPT !.messageCount = @ + 1,
                        !.messageTimestamps = Append(@, msg.offsetSeconds),
                        !.reactionScore = @ + score.reactionScore,
                        !.emoteCount = @ + score.emoteCount,
                        !.categoryScores =
                           [cat \in CategorySet |-> @[cat] + score.categories[cat]],
                        !.sampleMessages = Samples(@, msg, score)]) @@ bs

\* for (const msg of messages) accumulator.addMessage(msg)
RECURSIVE AddAll(_, _)
AddAll(bs, messages) ==
  IF Len(messages) = 0 THEN bs
  ELSE LET added == addMessage(bs, Head(messages))
       IN  \* the map is computed before the next message is taken
           IF DOMAIN added = {} THEN added ELSE AddAll(added, Tail(messages))

RECURSIVE SumCounts(_, _)
SumCounts(bs, keys) ==
  IF keys = {} THEN 0
  ELSE LET k == CHOOSE x \in keys : TRUE
       IN  bs[k].messageCount + SumCounts(bs, keys \ {k})

\* let totalMessages = 0; for (const b of buckets.values()) totalMessages += b.messageCount
TotalMessages(bs) == SumCounts(bs, DOMAIN bs)

EmptyBuckets == [k \in {} |-> NewBucket(k)]

(* ----------------------------------------------------------------------- *)
(* Peak detection                                                          *)
(* ----------------------------------------------------------------------- *)

\* Numbers that are not integers are kept exactly: a burst score and a
\* velocity in tenths, a ratio or a composite score as a reduced fraction.
RECURSIVE Gcd(_, _)
Gcd(a, b) == IF b = 0 THEN a ELSE Gcd(b, a % b)

Lcm(a, b) == (a \div Gcd(a, b)) * b

Frac(n, d) == LET g == Gcd(n, d) IN [num |-> n \div g, den |-> d \div g]

\* a < b for fractions of positive denominators
FracLess(a, b) == a.num * b.den < b.num * a.den

\* Array.prototype.sort with a comparator (a stable sort): Before(x, y) is
\* "the comparator is negative on (x, y)"; an element comes after those that
\* are before it and after the equal ones that precede it in seq.
StableSort(seq, before) ==
  LET rank(i) == 1 + Cardinality({j \in 1..Len(seq) :
                                    \/ before[j, i]
                                    \/ ~before[i, j] /\ j < i})
  IN  [p \in 1..Len(seq) |-> seq[CHOOSE i \in 1..Len(seq) : rank(i) = p]]

SUB_WINDOW == 5
BURST_MIN_MESSAGES == 10
BURST_MIN_RATE == 5

\* The for/while loop of computeBurstScore from index right on (1-based).
RECURSIVE BurstLoop(_, _, _, _)
BurstLoop(sorted, right, left, maxInWindow) ==
  IF right > Len(sorted) THEN maxInWindow
  ELSE LET l == MinOf({i \in left..right : sorted[right] - sorted[i] <= SUB_WINDOW})
           count == right - l + 1
       IN  BurstLoop(sorted, right + 1, l,
                     IF count > maxInWindow THEN count ELSE maxInWindow)

\* computeBurstScore, in tenths: Math.round(msgsPerSec * (msgsPerSec / 5) * 10)
\* is the rounding of 2 * maxInWindow^2 / 25, which is never half-way.
computeBurstScore(bucket) ==
  LET timestamps == bucket.messageTimestamps
  IN  IF Len(timestamps) < BURST_MIN_MESSAGES THEN 0
      ELSE LET sorted == StableSort(timestamps,
                                    [i, j \in 1..Len(timestamps) |-> timestamps[i] < timestamps[j]])
               maxInWindow == BurstLoop(sorted, 1, 1, 0)
           IN  IF maxInWindow < BURST_MIN_RATE * SUB_WINDOW THEN 0
               ELSE (4 * maxInWindow * maxInWindow + 25) \div 50

Normalized(m) == Trim(ToLowerCase(m))

\* computeSpamScore
computeSpamScore(bucket) ==
  LET msgs == bucket.sampleMessages
  IN  IF Len(msgs) < 3 THEN 0
      ELSE LET normalized == [i \in 1..Len(msgs) |-> Normalized(msgs[i])]
               freq(i) == Cardinality({j \in 1..Len(msgs) :
                                         normalized[j] = normalized[i]})
               maxFreq == MaxOf({freq(i) : i \in 1..Len(msgs)})
           IN  IF 10 * maxFreq >= 6 * Len(msgs) /\ maxFreq >= 3
               THEN maxFreq * 3 ELSE 0

\* the tag of the last of the sorted entries
resolveDominantTagLast(bucket, burstScore, spamScore) ==
  LET cat == bucket.categoryScores
      listed == [i \in 1..Len(Categories) |-> <<Categories[i], cat[Categories[i]]>>]
      entries == StableSort(listed, [i, j \in 1..Len(listed) |-> listed[j][2] - listed[i][2] < 0])
  IN  IF entries[1][2] = 0 THEN "hype" ELSE entries[Len(entries)][1]

\* the sorted entries without the default
resolveDominantTagNoDefault(bucket, burstScore, spamScore) ==
  LET cat == bucket.categoryScores
      listed == [i \in 1..Len(Categories) |-> <<Categories[i], cat[Categories[i]]>>]
      entries == StableSort(listed, [i, j \in 1..Len(listed) |-> listed[j][2] - listed[i][2] < 0])
  IN  entries[1][1]

\* resolveDominantTag
resolveDominantTag(bucket, burstScore, spamScore) ==
  LET cat == bucket.categoryScores
      listed == [i \in 1..Len(Categories) |-> <<Categories[i], cat[Categories[i]]>>]
      entries == StableSort(listed, [i, j \in 1..Len(listed) |-> listed[j][2] - listed[i][2] < 0])
  IN  IF entries[1][2] = 0 THEN "hype" ELSE entries[1][1]

RECURSIVE MergeInto(_, _)
MergeInto(merged, bucketList) ==
  IF Len(bucketList) = 0 THEN merged
  ELSE LET b == Head(bucketList)
           room == MAX_SAMPLES - Len(merged.sampleMessages)
       IN  MergeInto(
             [merged EXCEPT
                !.messageCount = @ + b.messageCount,
                !.reactionScore = @ + b.reactionScore,
                !.emoteCount = @ + b.emoteCount,
                !.categoryScores = [cat \in CategorySet |-> @[cat] + b.categoryScores[cat]],
                !.messageTimestamps = @ \o b.messageTimestamps,
                !.sampleMessages = @ \o Slice0(b.sampleMessages, IF room > 0 THEN room ELSE 0)],
             Tail(bucketList))

\* mergeBuckets
mergeBuckets(bucketList) ==
  MergeInto(NewBucket(IF Len(bucketList) > 0 THEN bucketList[1].startSec ELSE 0),
            bucketList)

\* the velocity against the two windows of time before the bucket, an empty
\* window counting for no message
computeVelocityScoreByTime(keys, bs, currentIdx) ==
  IF currentIdx = 1 THEN 10
  ELSE LET curr == bs[keys[currentIdx]]
           before == {keys[currentIdx] - windowSec, keys[currentIdx] - 2 * windowSec}
           prevTotal == SumCounts(bs, before \cap DOMAIN bs)
           prevCount == 2
       IN  IF prevTotal < prevCount
           THEN (IF curr.messageCount > 5 THEN 20 ELSE 10)
           ELSE IF curr.messageCount * prevCount >= 4 * prevTotal THEN 25
           ELSE IF curr.messageCount * prevCount >= 3 * prevTotal THEN 20
           ELSE IF curr.messageCount * prevCount >= 2 * prevTotal THEN 15
           ELSE IF 2 * curr.messageCount * prevCount >= 3 * prevTotal THEN 12
           ELSE 10

\* computeVelocityScore, in tenths; currentIdx counts from 1 here.
computeVelocityScore(keys, bs, currentIdx) ==
  IF currentIdx = 1 THEN 10
  ELSE LET curr == bs[keys[currentIdx]]
           prev == (IF currentIdx - 2 > 1 THEN currentIdx - 2 ELSE 1)..(currentIdx - 1)
           prevTotal == SumCounts(bs, {keys[i] : i \in prev})
           prevCount == Cardinality(prev)
       IN  IF prevTotal < prevCount
           THEN (IF curr.messageCount > 5 THEN 20 ELSE 10)
           ELSE IF curr.messageCount * prevCount >= 4 * prevTotal THEN 25
           ELSE IF curr.messageCount * prevCount >= 3 * prevTotal THEN 20
           ELSE IF curr.messageCount * prevCount >= 2 * prevTotal THEN 15
           ELSE IF 2 * curr.messageCount * prevCount >= 3 * prevTotal THEN 12
           ELSE 10

\* computeUniqueRatio
computeUniqueRatio(bucket) ==
  LET msgs == bucket.sampleMessages
  IN  IF Len(msgs) < 2 THEN Frac(1, 1)
      ELSE Frac(Cardinality({Normalized(msgs[i]) : i \in 1..Len(msgs)}), Len(msgs))

REACTION_DELAY == 20

\* Array.from(buckets.keys()).sort((a, b) => a - b)
RECURSIVE SortedKeys(_)
SortedKeys(keys) ==
  IF keys = {} THEN <<>>
  ELSE <<MinOf(keys)>> \o SortedKeys(keys \ {MinOf(keys)})

\* Phase 1: the WindowScore of the bucket at index idx (from 1) of keys.
WindowScoreOf(keys, bs, idx) ==
  LET center == bs[keys[idx]]
      burst == computeBurstScore(center)
      spam == computeSpamScore(center)
      velocity == computeVelocityScore(keys, bs, idx)
      uniqueRatio == computeUniqueRatio(center)
      merged == IF idx < Len(keys) THEN mergeBuckets(<<center, bs[keys[idx + 1]]>>)
                ELSE center
      \* 20 * rawScore
      rawScore20 == 20 * merged.messageCount + 30 * merged.reactionScore
                      + 40 * merged.emoteCount + burst
  IN  [key |-> keys[idx],
       \* rawScore * velocity * (0.5 + uniqueRatio * 0.5)
       score |-> Frac(rawScore20 * velocity * (uniqueRatio.den + uniqueRatio.num),
                      400 * uniqueRatio.den),
       merged |-> merged,
       burstScore |-> burst,
       spamScore |-> spam,
       velocityScore |-> velocity,
       uniqueRatio |-> uniqueRatio]

WindowScores(bs) ==
  LET keys == SortedKeys(DOMAIN bs)
  IN  [idx \in 1..Len(keys) |-> WindowScoreOf(keys, bs, idx)]

\* the first bucket of the list holding the sums after the call
FirstAfterMergeInPlace(bucketList) ==
  [mergeBuckets(bucketList) EXCEPT !.startSec = bucketList[1].startSec]

\* The first bucket of bucketList after mergeBuckets(bucketList): the sums go
\* to merged, an object made in the call with arrays of its own.
FirstAfterMerge(bucketList) == bucketList[1]

\* The bucket map after phase 1: computeBurstScore sorts a copy of the
\* timestamps, computeSpamScore, computeVelocityScore and computeUniqueRatio
\* only read, and the last bucket is passed on as it is.
BucketsAfterScoring(bs) ==
  LET keys == SortedKeys(DOMAIN bs)
  IN  [k \in DOMAIN bs |->
         LET idx == CHOOSE i \in 1..Len(keys) : keys[i] = k
         IN  IF idx < Len(keys) THEN FirstAfterMerge(<<bs[k], bs[keys[idx + 1]]>>)
             ELSE bs[k]]

RECURSIVE LcmDen(_)
LcmDen(scores) ==
  IF Len(scores) = 0 THEN 1 ELSE Lcm(Head(scores).den, LcmDen(Tail(scores)))

\* The sums of squares of phase 2 outgrow the integers of the checker: a
\* natural number is kept there as its digits in base LIMB, lowest first.
LIMB == 10000

RECURSIVE Big(_)
Big(n) == IF n = 0 THEN <<>> ELSE <<n % LIMB>> \o Big(n \div LIMB)

LimbAt(a, i) == IF i <= Len(a) THEN a[i] ELSE 0

RECURSIVE BigNorm(_)
BigNorm(a) ==
  IF Len(a) > 0 /\ a[Len(a)] = 0 THEN BigNorm(SubSeq(a, 1, Len(a) - 1)) ELSE a

RECURSIVE BigAddFrom(_, _, _, _)
BigAddFrom(a, b, i, carry) ==
  IF i > Len(a) /\ i > Len(b) THEN (IF carry = 0 THEN <<>> ELSE <<carry>>)
  ELSE LET t == LimbAt(a, i) + LimbAt(b, i) + carry
       IN  <<t % LIMB>> \o BigAddFrom(a, b, i + 1, t \div LIMB)

BigAdd(a, b) == BigAddFrom(a, b, 1, 0)

\* a - b for a >= b
RECURSIVE BigSubFrom(_, _, _, _)
BigSubFrom(a, b, i, borrow) ==
  IF i > Len(a) THEN <<>>
  ELSE LET t == LimbAt(a, i) - LimbAt(b, i) - borrow
       IN  IF t < 0 THEN <<t + LIMB>> \o BigSubFrom(a, b, i + 1, 1)
           ELSE <<t>> \o BigSubFrom(a, b, i + 1, 0)

BigSub(a, b) == BigNorm(BigSubFrom(a, b, 1, 0))

RECURSIVE BigTimesLimb(_, _, _, _)
BigTimesLimb(a, k, i, carry) ==
  IF i > Len(a) THEN (IF carry = 0 THEN <<>> ELSE <<carry>>)
  ELSE LET t == a[i] * k + carry
       IN  <<t % LIMB>> \o BigTimesLimb(a, k, i + 1, t \div LIMB)

RECURSIVE BigMul(_, _)
BigMul(a, b) ==
  IF Len(b) = 0 \/ Len(a) = 0 THEN <<>>
  ELSE BigNorm(BigAdd(BigTimesLimb(a, Head(b), 1, 0), <<0>> \o BigMul(a, Tail(b))))

\* a <= b, for numbers without leading zero digits
BigLeq(a, b) ==
  IF Len(a) # Len(b) THEN Len(a) < Len(b)
  ELSE LET diff == {i \in 1..Len(a) : a[i] # b[i]}
       IN  diff = {} \/ a[MaxOf(diff)] < b[MaxOf(diff)]

RECURSIVE BigSum(_)
BigSum(s) == IF Len(s) = 0 THEN <<>> ELSE BigAdd(Head(s), BigSum(Tail(s)))

\* score >= mean, whatever the deviation
AtLeastMean(score, scores, thresholdFactor) ==
  LET n == Len(scores)
      unit == Lcm(score.den, LcmDen(scores))
      S(x) == BigMul(Big(x.num), Big(unit \div x.den))
  IN  BigLeq(BigSum([j \in 1..n |-> S(scores[j])]), BigMul(Big(n), S(score)))

\* Phase 2: score >= mean + thresholdFactor * stddev, mean and stddev being
\* those of scores.  With D(x) = n * x - sum, x - mean is D(x) / n and the
\* variance is the sum of the D(scores[j])^2 over n^3, so that the test is
\*   den * D(score) * sqrt(n) >= num * sqrt(squares)
\* for thresholdFactor = num / den.
AtLeastThreshold(score, scores, thresholdFactor) ==
  LET n == Len(scores)
      unit == Lcm(score.den, LcmDen(scores))
      S(x) == BigMul(Big(x.num), Big(unit \div x.den))
      sum == BigSum([j \in 1..n |-> S(scores[j])])
      nS(x) == BigMul(Big(n), S(x))
      \* |D(x)|
      AbsD(x) == IF BigLeq(sum, nS(x)) THEN BigSub(nS(x), sum) ELSE BigSub(sum, nS(x))
      squares == BigSum([j \in 1..n |-> BigMul(AbsD(scores[j]), AbsD(scores[j]))])
      num == thresholdFactor.num
      den == thresholdFactor.den
      left == BigMul(Big(n * den * den), BigMul(AbsD(score), AbsD(score)))
      right == BigMul(Big(num * num), squares)
  IN  IF BigLeq(sum, nS(score))
      THEN num <= 0 \/ BigLeq(right, left)
      ELSE num < 0 /\ BigLeq(left, right)

\* Math.round((messageCount / windowSec) * 10), the tenths of messagesPerSec
MessagesPerSec10(messageCount, w) == (20 * messageCount + w) \div (2 * w)

\* The moment pushed for entry.
Moment(entry, start, end, o) ==
  [startSec |-> start,
   endSec |-> end,
   score |-> entry.score,
   messagesPerSec |-> MessagesPerSec10(entry.merged.messageCount, o.windowSec),
   messageCount |-> entry.merged.messageCount,
   tag |-> resolveDominantTag(entry.merged, entry.burstScore, entry.spamScore),
   categoryScores |-> entry.merged.categoryScores,
   burstScore |-> entry.burstScore,
   sampleMessages |-> entry.merged.sampleMessages]

\* the test of closeness without the gap
TooCloseNoGap(start, end, usedRanges, o) ==
  \E i \in 1..Len(usedRanges) : start < usedRanges[i][2] /\ end > usedRanges[i][1]

\* usedRanges.some(([s, e]) => start < e + minGap && end > s - minGap)
TooClose(start, end, usedRanges, o) ==
  \E i \in 1..Len(usedRanges) :
     /\ start < usedRanges[i][2] + o.minGapSec
     /\ end > usedRanges[i][1] - o.minGapSec

\* Math.max(0, entry.key - reactionDelay)
ClipStart(key) == IF key - REACTION_DELAY > 0 THEN key - REACTION_DELAY ELSE 0

\* the loop of phase 3 without its cap
RECURSIVE SelectUncapped(_, _, _, _)
SelectUncapped(candidates, selected, usedRanges, o) ==
  IF Len(candidates) = 0 THEN selected
  ELSE LET entry == Head(candidates)
           start == ClipStart(entry.key)
           end == start + o.clipDurationSec
       IN  IF TooClose(start, end, usedRanges, o)
           THEN SelectUncapped(Tail(candidates), selected, usedRanges, o)
           ELSE SelectUncapped(Tail(candidates), Append(selected, Moment(entry, start, end, o)),
                       Append(usedRanges, <<start, end>>), o)

\* Phase 3: the loop over the candidates left, selected and usedRanges
\* being what the earlier iterations built.
RECURSIVE Select(_, _, _, _)
Select(candidates, selected, usedRanges, o) ==
  IF Len(candidates) = 0 THEN selected
  ELSE IF o.maxHighlights > 0 /\ Len(selected) >= o.maxHighlights THEN selected
  ELSE LET entry == Head(candidates)
           start == ClipStart(entry.key)
           end == start + o.clipDurationSec
       IN  IF TooClose(start, end, usedRanges, o)
           THEN Select(Tail(candidates), selected, usedRanges, o)
           ELSE Select(Tail(candidates), Append(selected, Moment(entry, start, end, o)),
                       Append(usedRanges, <<start, end>>), o)

\* the candidates in the order of their keys
CandidatesInKeyOrder(windowScores, o) ==
  LET scores == [i \in 1..Len(windowScores) |-> windowScores[i].score]
  IN  SelectSeq(windowScores,
                LAMBDA w : AtLeastThreshold(w.score, scores, o.thresholdFactor))

\* the candidates with those of one score in the reverse of their order
CandidatesLastFirst(windowScores, o) ==
  LET scores == [i \in 1..Len(windowScores) |-> windowScores[i].score]
      kept == SelectSeq(windowScores,
                        LAMBDA w : AtLeastThreshold(w.score, scores, o.thresholdFactor))
      turned == [i \in 1..Len(kept) |-> kept[Len(kept) + 1 - i]]
  IN  StableSort(turned, [i, j \in 1..Len(turned) |-> FracLess(turned[j].score, turned[i].score)])

\* windowScores.filter((w) => w.score >= threshold)
\*             .sort((a, b) => b.score - a.score)
Candidates(windowScores, o) ==
  LET scores == [i \in 1..Len(windowScores) |-> windowScores[i].score]
      kept == SelectSeq(windowScores,
                        LAMBDA w : AtLeastThreshold(w.score, scores, o.thresholdFactor))
  IN  StableSort(kept, [i, j \in 1..Len(kept) |-> FracLess(kept[j].score, kept[i].score)])

findHypeMoments(bs, o) ==
  IF Cardinality(DOMAIN bs) = 0 THEN <<>>
  ELSE LET selected == Select(Candidates(WindowScores(bs), o), <<>>, <<>>, o)
       IN  StableSort(selected,
                      [i, j \in 1..Len(selected) |-> selected[i].startSec < selected[j].startSec])

\* The options the analyze route passes, which are the defaults as well.
ROUTE_OPTS ==
  [windowSec |-> 30, clipDurationSec |-> 30, minGapSec |-> 45,
   thresholdFactor |-> Frac(1, 1), maxHighlights |-> 0]

(* ----------------------------------------------------------------------- *)
(* The handler                                                             *)
(* ----------------------------------------------------------------------- *)

NoResponse == [status |-> 0, fields |-> {}, error |-> <<>>, totalMessages |-> 0,
               bucketsAnalyzed |-> 0]
NoResp == [kind |-> "none", status |-> 0, body |-> <<>>, message |-> <<>>,
           errors |-> NoErrors, comments |-> NoComments]
Pending == [state |-> "pending", error |-> NoError, pagesProcessed |-> 0,
            lastOffsetSeconds |-> 0]

\* The handler has validated the URL, built the accumulator and read startTime;
\* iterateChat has initialised its locals and is about to fetch the first page.
Init ==
  /\ pc = "call"
  /\ maxPages \in 1..MaxPagesBound
  /\ startOffsetSeconds \in {NoOffset, 120}
  /\ cursor = Null
  /\ pagesProcessed = 0
  /\ lastOffset = 0
  /\ variables = Variables(Null, NoOffset)
  /\ attempt = 0
  /\ lastError = NoError
  /\ inFlight = FALSE
  /\ page = EmptyPage
  /\ windowSec = WINDOW_SEC
  /\ buckets = EmptyBuckets
  /\ opts = ROUTE_OPTS
  /\ moments = <<>>
  /\ elapsed = 0
  /\ cbThrown = NoError
  /\ iterResult = Pending
  /\ response = NoResponse
  /\ fetchCalls = 0
  /\ reqLog = <<>>
  /\ waits = <<>>
  /\ lastResp = NoResp
  /\ lastAttempt = 0
  /\ statusRetries = 0
  /\ prevNext = Null
  /\ fetched = <<>>
  /\ delivered = <<>>
  \* no clip request, the semaphore as built with MAX_CONCURRENT unset
  /\ maxConcurrentEnv = [set |-> FALSE, value |-> <<>>]
  /\ max = 1
  /\ current = 0
  /\ queue = <<>>
  /\ clips = <<>>
  /\ asked = <<>>
  /\ grants = <<>>

(* ----------------------------------------------------------------------- *)
(* fetchCommentPage                                                        *)
(* ----------------------------------------------------------------------- *)

\* iterateChat calls fetchCommentPage: (videoId, undefined, startOffsetSeconds ?? 0)
\* for the first page, (videoId, cursor) afterwards.  The payload is built once.
BeginFetch ==
  /\ pc = "call"
  /\ variables' = IF pagesProcessed = 0
                  THEN Variables(Null, IF startOffsetSeconds = NoOffset
                                       THEN 0 ELSE startOffsetSeconds)
                  ELSE Variables(cursor, NoOffset)
  /\ attempt' = 0
  /\ lastError' = NoError
  /\ fetchCalls' = fetchCalls + 1
  /\ reqLog' = <<>>
  /\ waits' = <<>>
  /\ prevNext' = page.nextCursor
  /\ statusRetries' = 0
  /\ pc' = "attempt"
  /\ UNCHANGED <<semVars, detectVars, iterVars, handlerVars, inFlight, page, elapsed, lastResp,
                 lastAttempt, fetched>>

\* if (attempt > 0) await sleep(RETRY_BASE_MS * 2 ** (attempt - 1))
Backoff ==
  /\ pc = "attempt"
  /\ attempt > 0
  /\ elapsed' = elapsed + BackoffMs(attempt)
  /\ waits' = Append(waits, BackoffMs(attempt))
  /\ pc' = "send"
  /\ UNCHANGED <<semVars, detectVars, iterVars, handlerVars, variables, attempt, lastError, inFlight,
                 page, fetchCalls, reqLog, lastResp, lastAttempt, statusRetries,
                 prevNext, fetched>>

\* fetch(TWITCH_GQL_URL, {method: "POST", ..., body: payload})
SendRequest ==
  /\ pc = "send" \/ (pc = "attempt" /\ attempt = 0)
  /\ inFlight' = TRUE
  /\ reqLog' = Append(reqLog, variables)
  /\ pc' = "await"
  /\ UNCHANGED <<semVars, detectVars, iterVars, handlerVars, variables, attempt, lastError, page,
                 elapsed, fetchCalls, waits, lastResp, lastAttempt, statusRetries,
                 prevNext, fetched>>

\* The response (or the rejection) arrives and the rest of the loop body runs:
\* the call retries, throws or returns.  iterateChat has no try/catch, so a
\* throw of fetchCommentPage rejects iterateChat with the same error.
Receive(resp, latency) ==
  /\ pc = "await"
  /\ elapsed + latency <= MaxElapsedMs
  /\ elapsed' = elapsed + latency
  /\ inFlight' = FALSE
  /\ lastResp' = resp
  /\ lastAttempt' = attempt
  /\ statusRetries' = IF resp.kind = "http" /\ resp.status \in {429, 502, 503}
                      THEN statusRetries + 1 ELSE statusRetries
  /\ LET r == Attempt(attempt, resp)
     IN  CASE r.tag = "continue" ->
                /\ attempt' = attempt + 1
                /\ lastError' = r.error
                /\ pc' = "attempt"
                /\ UNCHANGED <<page, iterResult, fetched>>
           [] r.tag = "throw" ->
                /\ lastError' = r.error
                /\ iterResult' = [Pending EXCEPT !.state = "rejected", !.error = r.error]
                /\ pc' = "settled"
                /\ UNCHANGED <<attempt, page, fetched>>
           [] OTHER ->
                /\ page' = r.page
                /\ fetched' = Append(fetched, r.page.messages)
                /\ pc' = "page"
                /\ UNCHANGED <<attempt, lastError, iterResult>>
  /\ UNCHANGED <<semVars, detectVars, iterVars, buckets, cbThrown, response, delivered, variables,
                 fetchCalls, reqLog, waits, prevNext>>

(* ----------------------------------------------------------------------- *)
(* iterateChat                                                             *)
(* ----------------------------------------------------------------------- *)

callVars == <<variables, attempt, lastError, inFlight, page, elapsed, fetchCalls,
              reqLog, waits, lastResp, lastAttempt, prevNext, fetched>>
fetchVars == <<callVars, statusRetries>>

Fulfilled(n, off) ==
  [state |-> "fulfilled", error |-> NoError, pagesProcessed |-> n,
   lastOffsetSeconds |-> off]

LoopTestNoCap(cur, n) == Truthy(cur)

\* while (cursor && pagesProcessed < maxPages)
LoopTest(cur, n) == Truthy(cur) /\ n < maxPages

\* pagesProcessed++; cursor = nextCursor ?? undefined; then the loop test:
\* either the next page is fetched or iterateChat returns.
Advance(off) ==
  /\ lastOffset' = off
  /\ pagesProcessed' = pagesProcessed + 1
  /\ cursor' = page.nextCursor
  /\ IF LoopTest(page.nextCursor, pagesProcessed + 1)
     THEN pc' = "call" /\ UNCHANGED iterResult
     ELSE pc' = "settled" /\ iterResult' = Fulfilled(pagesProcessed + 1, off)

\* The first page came back without messages: onBatch is not called.
FirstPageEmpty ==
  /\ pc = "page"
  /\ pagesProcessed = 0
  /\ Len(page.messages) = 0
  /\ Advance(lastOffset)
  /\ statusRetries' = 0
  /\ UNCHANGED <<semVars, detectVars, maxPages, startOffsetSeconds, callVars, buckets, cbThrown,
                 response, delivered>>

\* if (page.messages.length === 0) break;
LaterPageEmpty ==
  /\ pc = "page"
  /\ pagesProcessed > 0
  /\ Len(page.messages) = 0
  /\ iterResult' = Fulfilled(pagesProcessed, lastOffset)
  /\ pc' = "settled"
  /\ statusRetries' = 0
  /\ UNCHANGED <<semVars, detectVars, iterVars, callVars, buckets, cbThrown, response, delivered>>

CallOnBatchNever ==
  /\ pc = "page"
  /\ Len(page.messages) > 0
  /\ cbThrown' = NoError
  /\ pc' = "afterBatch"
  /\ statusRetries' = 0
  /\ UNCHANGED <<semVars, detectVars, iterVars, callVars, buckets, iterResult, response, delivered>>

\* A page with messages: iterateChat calls onBatch(page.messages).
CallOnBatch ==
  /\ pc = "page"
  /\ Len(page.messages) > 0
  /\ pc' = "callback"
  /\ statusRetries' = 0
  /\ UNCHANGED <<semVars, detectVars, iterVars, callVars, handlerVars>>

AfterBatchSwallow ==
  /\ pc = "afterBatch"
  /\ Advance(page.messages[Len(page.messages)].offsetSeconds)
  /\ UNCHANGED <<semVars, detectVars, maxPages, startOffsetSeconds, fetchVars, buckets, cbThrown,
                 response, delivered>>

\* onBatch is over.  If it threw, iterateChat rejects with what it threw;
\* otherwise lastOffset, pagesProcessed and cursor are updated.
AfterBatch ==
  /\ pc = "afterBatch"
  /\ IF cbThrown # NoError
     THEN /\ iterResult' = [Pending EXCEPT !.state = "rejected", !.error = cbThrown]
          /\ pc' = "settled"
          /\ UNCHANGED <<cursor, pagesProcessed, lastOffset>>
     ELSE Advance(page.messages[Len(page.messages)].offsetSeconds)
  /\ UNCHANGED <<semVars, detectVars, maxPages, startOffsetSeconds, fetchVars, buckets, cbThrown,
                 response, delivered>>

(* ----------------------------------------------------------------------- *)
(* The analysis handler (POST)                                             *)
(* ----------------------------------------------------------------------- *)

OnBatchCheckFirst ==
  /\ pc = "callback"
  /\ delivered' = Append(delivered, page.messages)
  /\ IF elapsed > ANALYSIS_TIMEOUT_MS
     THEN cbThrown' = AnalysisTimeoutError /\ UNCHANGED buckets
     ELSE cbThrown' = NoError /\ buckets' = AddAll(buckets, page.messages)
  /\ pc' = "afterBatch"
  /\ UNCHANGED <<semVars, detectVars, iterVars, fetchVars, iterResult, response>>

\* The callback: every message goes into the accumulator, then the clock is read.
OnBatch ==
  /\ pc = "callback"
  /\ buckets' = AddAll(buckets, page.messages)
  /\ delivered' = Append(delivered, page.messages)
  /\ cbThrown' = IF elapsed > ANALYSIS_TIMEOUT_MS THEN AnalysisTimeoutError ELSE NoError
  /\ pc' = "afterBatch"
  /\ UNCHANGED <<semVars, detectVars, iterVars, fetchVars, iterResult, response>>

NO_MESSAGES == <<"N","o"," ","c","h","a","t"," ","m","e","s","s","a","g","e","s"," ","f","o","u","n","d"," ","f","o","r"," ","t","h","i","s"," ","v","i","d","e","o">>

JsonError(message, status) ==
  [status |-> status, fields |-> {"error"}, error |-> message, totalMessages |-> 0,
   bucketsAnalyzed |-> 0]

\* The response built from the buckets: 404 without buckets, 200 otherwise.
FromBuckets(bs) ==
  IF Cardinality(DOMAIN bs) = 0
  THEN JsonError(NO_MESSAGES, 404)
  ELSE [status |-> 200,
        fields |-> {"videoId", "totalMessages", "bucketsAnalyzed", "moments"},
        error |-> <<>>,
        totalMessages |-> TotalMessages(bs),
        bucketsAnalyzed |-> Cardinality(DOMAIN bs)]

HandlerResultLenient(res, bs) == FromBuckets(bs)

\* What POST answers once iterateChat has settled as res.
HandlerResult(res, bs) ==
  IF res.state = "rejected" /\ res.error.name # "AnalysisTimeoutError"
  THEN JsonError(FAILED_PREFIX \o res.error.message, 502)
  ELSE FromBuckets(bs)

Respond ==
  /\ pc = "settled"
  /\ response' = HandlerResult(iterResult, buckets)
  /\ moments' = IF HandlerResult(iterResult, buckets).status = 200
                THEN findHypeMoments(buckets, ROUTE_OPTS) ELSE moments
  /\ buckets' = IF HandlerResult(iterResult, buckets).status = 200
                THEN BucketsAfterScoring(buckets) ELSE buckets
  /\ pc' = "responded"
  /\ UNCHANGED <<semVars, windowSec, opts, iterVars, fetchVars, cbThrown, iterResult, delivered>>

Next ==
  \/ BeginFetch
  \/ Backoff
  \/ SendRequest
  \/ \E resp \in Responses, latency \in Latencies : Receive(resp, latency)
  \/ FirstPageEmpty
  \/ LaterPageEmpty
  \/ CallOnBatch
  \/ OnBatch
  \/ AfterBatch
  \/ Respond

Spec == Init /\ [][Next]_vars

\* The steps of iterateChat itself.
IterateNext ==
  \/ BeginFetch
  \/ Backoff
  \/ SendRequest
  \/ \E resp \in Responses, latency \in Latencies : Receive(resp, latency)
  \/ FirstPageEmpty
  \/ LaterPageEmpty
  \/ CallOnBatch
  \/ AfterBatch

\* The callback, once called, returns or throws: OnBatch is possible
\* whenever pc = "callback" and is the only step that leaves it.
CallbackReturns == pc = "callback" /\ pc' = "afterBatch"

\* Every step of the iteration is taken as long as one is possible, and the
\* callback it calls comes back.
FairSpec == Spec /\ WF_vars(IterateNext) /\ WF_pc(CallbackReturns)

(* ----------------------------------------------------------------------- *)
(* The analyzer on its own: an accumulator fed batch by batch, then read   *)
(* by findHypeMoments                                                      *)
(* ----------------------------------------------------------------------- *)

\* A ChatMessage made of its fragments, as ToMessage makes it.
Msg(off, frags) ==
  [offsetSeconds |-> off, author |-> "ann", fragments |-> frags,
   text |-> Join([i \in 1..Len(frags) |-> frags[i].text], <<>>)]

Plain(off, text) == Msg(off, <<Frag(text, Null)>>)

LUL == Frag(<<"L","U","L">>, "425618")
HELLO == <<"h","e","l","l","o">>
INSANE == <<"I","N","S","A","N","E">>
OMG == <<"o","m","g">>
LMAO == <<"l","m","a","o">>
BOB == <<"b","o","b"," ">>
SUBS == <<" ","s","u","b","s">>

Gift(off, n) == Plain(off, BOB \o IS_GIFTING \o <<" ">> \o DecStr(n) \o SUBS)

\* a message of more than SAMPLE_LEN characters that scores
LongLaugh(off) == Plain(off, LMAO \o <<" ">> \o Rep("a", SAMPLE_LEN))

\* a ban notice followed by eight laughing emotes
BanAndLaughs(off) ==
  Msg(off, <<Frag(BOB \o HAS_BEEN_BANNED, Null)>> \o [i \in 1..8 |-> LUL])

B_PLAIN_600 == << Plain(605, HELLO) >>
B_PLAIN_630 == << Plain(640, HELLO), Plain(631, <<"g","g">>) >>
B_BAN == << Plain(612, BOB \o ToUpperCase(HAS_BEEN_BANNED)) >>
B_BAN_LUL == << BanAndLaughs(2410) >>
B_GIFTS_LOW ==
  << Gift(35, 14), Plain(36, BOB \o IS_GIFTING \o SUBS),
     Plain(37, BOB \o IS_GIFTING \o <<" ","5",","," ">> \o IS_GIFTING \o <<" ","5","0">>) >>
B_GIFTS_HIGH == << Gift(5, 15), Gift(8, 50) >>
B_TIE == << Plain(2405, LMAO \o <<" ">> \o OMG), Msg(2406, <<LUL, Frag(<<" ">>, Null), Frag(<<"P","o","g">>, "88")>>) >>
B_FLOOD ==
  << Plain(1201, <<"h","i">>), LongLaugh(1202) >>
    \o [i \in 1..5 |-> Msg(1203, <<LUL>>)]
    \o [i \in 1..3 |-> Plain(1210 + i, INSANE)]
    \o [i \in 1..2 |-> Plain(1219, OMG)]
B_LATE == << Msg(629, <<Frag(<<" ","P","o","g","U"," ">>, "7")>>), Plain(3, <<"c","h","e","e","r","5","0","0">>) >>

B_SPREAD ==
  << Plain(100, HELLO), Plain(1000, OMG), Plain(1001, HELLO), Plain(5000, LMAO),
     Plain(5031, HELLO) >>

\* three windows of one composite score: 5 + 1, (1 + 5) * 1.0, 5 * 1.2
B_EVEN ==
  [i \in 1..5 |-> Plain(600 + i, HELLO)] \o << Plain(631, HELLO) >>
    \o [i \in 1..5 |-> Plain(3000 + i, HELLO)]

\* fun and hype level in the first window, nothing scored in the second
B_CALM ==
  << Plain(2405, LMAO \o <<" ">> \o OMG) >>
    \o [i \in 1..3 |-> Plain(4000 + i, HELLO)] \o << Plain(9000, HELLO) >>

\* 25 messages over the seconds 1800 to 1805, five in the first and four in
\* each of the others
B_BURST == [i \in 1..25 |-> Plain(1800 + ((i - 1) % 6), <<"h","i">>)]

\* one message, three times as many long after, then eight long after those
B_SURGE ==
  << Plain(100, HELLO) >> \o [i \in 1..3 |-> Plain(1000 + i, HELLO)]
    \o [i \in 1..8 |-> Plain(5000 + i, HELLO)]

\* two quiet windows, then one message and four more in the 20 seconds after
B_CLIMB ==
  << Plain(100, HELLO), Plain(500, HELLO), Plain(2001, HELLO) >>
    \o [i \in 1..4 |-> Plain(2021, HELLO)]

Batches ==
  { B_PLAIN_600, B_PLAIN_630, B_BAN, B_BAN_LUL, B_GIFTS_LOW, B_GIFTS_HIGH,
    B_TIE, B_FLOOD, B_LATE, B_SPREAD, B_EVEN, B_CALM, B_BURST, B_SURGE,
    B_CLIMB }

\* The accumulator takes up to MaxBatches batches.
MaxBatches == 2

WindowSecs == {30, 20}

O_NO_GAP ==
  [windowSec |-> 30, clipDurationSec |-> 30, minGapSec |-> 0,
   thresholdFactor |-> Frac(0, 1), maxHighlights |-> 0]
O_CAPPED ==
  [windowSec |-> 30, clipDurationSec |-> 10, minGapSec |-> 5,
   thresholdFactor |-> Frac(0, 1), maxHighlights |-> 1]
O_HALF ==
  [windowSec |-> 20, clipDurationSec |-> 60, minGapSec |-> 45,
   thresholdFactor |-> Frac(1, 2), maxHighlights |-> 2]

OptsSet == {ROUTE_OPTS, O_NO_GAP, O_CAPPED, O_HALF}

\* An accumulator with its window, nothing ingested yet; the variables of
\* the fetching stay as they start.
AnalyzerInit ==
  /\ pc = "ingest"
  /\ windowSec \in WindowSecs
  /\ buckets = EmptyBuckets
  /\ delivered = <<>>
  /\ opts = ROUTE_OPTS
  /\ moments = <<>>
  /\ maxPages = 1
  /\ startOffsetSeconds = NoOffset
  /\ cursor = Null
  /\ pagesProcessed = 0
  /\ lastOffset = 0
  /\ variables = Variables(Null, NoOffset)
  /\ attempt = 0
  /\ lastError = NoError
  /\ inFlight = FALSE
  /\ page = EmptyPage
  /\ elapsed = 0
  /\ cbThrown = NoError
  /\ iterResult = Pending
  /\ response = NoResponse
  /\ fetchCalls = 0
  /\ reqLog = <<>>
  /\ waits = <<>>
  /\ lastResp = NoResp
  /\ lastAttempt = 0
  /\ statusRetries = 0
  /\ prevNext = Null
  /\ fetched = <<>>
  \* no clip request, the semaphore as built with MAX_CONCURRENT unset
  /\ maxConcurrentEnv = [set |-> FALSE, value |-> <<>>]
  /\ max = 1
  /\ current = 0
  /\ queue = <<>>
  /\ clips = <<>>
  /\ asked = <<>>
  /\ grants = <<>>

\* for (const msg of messages) accumulator.addMessage(msg)
AddBatch(messages) ==
  /\ pc = "ingest"
  /\ Len(delivered) < MaxBatches
  /\ buckets' = AddAll(buckets, messages)
  /\ delivered' = Append(delivered, messages)
  /\ UNCHANGED <<semVars, pc, detectVars, iterVars, fetchVars, cbThrown, iterResult, response>>

\* findHypeMoments(accumulator.getBuckets(), o)
Detect(o) ==
  /\ pc = "ingest"
  /\ opts' = o
  /\ moments' = findHypeMoments(buckets, o)
  /\ buckets' = BucketsAfterScoring(buckets)
  /\ pc' = "detected"
  /\ UNCHANGED <<semVars, windowSec, iterVars, fetchVars, cbThrown, iterResult, response, delivered>>

AnalyzerNext ==
  \/ \E messages \in Batches : AddBatch(messages)
  \/ \E o \in OptsSet : Detect(o)

AnalyzerSpec == AnalyzerInit /\ [][AnalyzerNext]_vars

(* ----------------------------------------------------------------------- *)
(* The clip route and its semaphore                                        *)
(* ----------------------------------------------------------------------- *)

\* The clip requests of a run, and the largest MAX_CONCURRENT tried.
MaxRequests == 3
MaxSlots == 2

Requests == 1..MaxRequests

\* queue.shift() of an empty queue: undefined
NoRequest == 0

\* parseInt of a text without a leading number; no comparison with it holds
NaN == 0 - 1

\* the values of process.env.MAX_CONCURRENT: unset, empty, a count, a word
EnvValues ==
  {[set |-> FALSE, value |-> <<>>], [set |-> TRUE, value |-> <<>>],
   [set |-> TRUE, value |-> <<"a","l","l">>]}
    \cup {[set |-> TRUE, value |-> DecStr(n)] : n \in 0..MaxSlots}

DEFAULT_MAX_CONCURRENT == <<"1">>

\* parseInt(process.env.MAX_CONCURRENT || "1", 10), for a text that is a run
\* of digits or begins with a letter
maxConcurrent(env) ==
  LET text == IF env.set /\ env.value # <<>> THEN env.value ELSE DEFAULT_MAX_CONCURRENT
  IN  IF \A i \in 1..Len(text) : \E d \in 0..9 : Digit(d) = text[i]
      THEN ParseInt(text) ELSE NaN

\* a slot is free when current is at most max
HasSlotInclusive(cur, m) == m # NaN /\ cur <= m

\* if (this.current < this.max)
HasSlot(cur, m) == m # NaN /\ cur < m

\* the closure taken from the end of the queue
Pop(q) ==
  IF q = <<>> THEN [next |-> NoRequest, rest |-> q]
  ELSE [next |-> q[Len(q)], rest |-> SubSeq(q, 1, Len(q) - 1)]

\* const next = this.queue.shift()
Shift(q) ==
  IF q = <<>> THEN [next |-> NoRequest, rest |-> q]
  ELSE [next |-> Head(q), rest |-> Tail(q)]

\* what runFfmpeg(args) settles with: it resolves, or rejects with one of
\* its two errors (the process is killed after FFMPEG_TIMEOUT_SECONDS) or
\* with another
FfmpegOutcomes == {"resolved", "FfmpegTimeoutError", "FfmpegProcessError", "Error"}

\* what stat(outPath) gives: no file (it rejects), an empty file, a clip
NoFile == 0 - 1
StatSizes == {NoFile, 0, 1}

\* the answers of the handler before it asks for a slot
EarlyStatuses == {400, 413, 500}

NewClip == [at |-> "received", err |-> NoError.name, status |-> 0, releases |-> 0]

SemaphoreInit ==
  /\ maxConcurrentEnv \in EnvValues
  /\ max = maxConcurrent(maxConcurrentEnv)
  /\ current = 0
  /\ queue = <<>>
  /\ clips = [r \in Requests |-> NewClip]
  /\ asked = <<>>
  /\ grants = <<>>
  /\ pc = "clip"
  /\ windowSec = WINDOW_SEC
  /\ buckets = EmptyBuckets
  /\ delivered = <<>>
  /\ opts = ROUTE_OPTS
  /\ moments = <<>>
  /\ maxPages = 1
  /\ startOffsetSeconds = NoOffset
  /\ cursor = Null
  /\ pagesProcessed = 0
  /\ lastOffset = 0
  /\ variables = Variables(Null, NoOffset)
  /\ attempt = 0
  /\ lastError = NoError
  /\ inFlight = FALSE
  /\ page = EmptyPage
  /\ elapsed = 0
  /\ cbThrown = NoError
  /\ iterResult = Pending
  /\ response = NoResponse
  /\ fetchCalls = 0
  /\ reqLog = <<>>
  /\ waits = <<>>
  /\ lastResp = NoResp
  /\ lastAttempt = 0
  /\ statusRetries = 0
  /\ prevNext = Null
  /\ fetched = <<>>

analysisVars == <<pc, detectVars, iterVars, fetchVars, handlerVars>>

\* POST: a return of lines 25 to 68, before the semaphore is asked
Reject(r, status) ==
  /\ clips[r].at = "received"
  /\ clips' = [clips EXCEPT ![r].at = "rejected", ![r].status = status]
  /\ UNCHANGED <<analysisVars, maxConcurrentEnv, max, current, queue, asked, grants>>

\* clipSemaphore.acquire(): the slot is taken at once, or the closure that
\* will take it is queued
Acquire(r) ==
  /\ clips[r].at = "received"
  /\ asked' = Append(asked, r)
  /\ IF HasSlot(current, max)
     THEN /\ current' = current + 1
          /\ clips' = [clips EXCEPT ![r].at = "granted"]
          /\ grants' = Append(grants, r)
          /\ UNCHANGED queue
     ELSE /\ queue' = Append(queue, r)
          /\ clips' = [clips EXCEPT ![r].at = "queued"]
          /\ UNCHANGED <<current, grants>>
  /\ UNCHANGED <<analysisVars, maxConcurrentEnv, max>>

\* the handler goes on after await clipSemaphore.acquire() and calls runFfmpeg
Enter(r) ==
  /\ clips[r].at = "granted"
  /\ clips' = [clips EXCEPT ![r].at = "ffmpeg"]
  /\ UNCHANGED <<analysisVars, maxConcurrentEnv, max, current, queue, asked, grants>>

\* await runFfmpeg(args) settles
RunFfmpeg(r, outcome) ==
  /\ clips[r].at = "ffmpeg"
  /\ clips' = IF outcome = "resolved"
              THEN [clips EXCEPT ![r].at = "stat"]
              ELSE [clips EXCEPT ![r].at = "catch", ![r].err = outcome]
  /\ UNCHANGED <<analysisVars, maxConcurrentEnv, max, current, queue, asked, grants>>

\* finally { clipSemaphore.release() } as the handler returns status:
\* current--, then the first closure of the queue, if any, does current++
\* and resolves the acquire of its request
ReturnAndRelease(r, status) ==
  LET shifted == Shift(queue)
      next == shifted.next
  IN  /\ queue' = shifted.rest
      /\ current' = IF next = NoRequest THEN current - 1 ELSE (current - 1) + 1
      /\ clips' = [q \in Requests |->
                     IF q = r
                     THEN [clips[r] EXCEPT !.at = "done", !.status = status,
                                           !.releases = @ + 1]
                     ELSE IF q = next THEN [clips[q] EXCEPT !.at = "granted"]
                     ELSE clips[q]]
      /\ grants' = IF next = NoRequest THEN grants ELSE Append(grants, next)
      /\ UNCHANGED <<analysisVars, maxConcurrentEnv, max, asked>>

\* await stat(outPath): it rejects, or the file is empty, or the clip is
\* streamed back
Stat(r, size) ==
  /\ clips[r].at = "stat"
  /\ IF size = NoFile
     THEN /\ clips' = [clips EXCEPT ![r].at = "catch", ![r].err = "Error"]
          /\ UNCHANGED <<analysisVars, maxConcurrentEnv, max, current, queue, asked, grants>>
     ELSE IF size = 0
     THEN /\ clips' = [clips EXCEPT ![r].at = "empty"]
          /\ UNCHANGED <<analysisVars, maxConcurrentEnv, max, current, queue, asked, grants>>
     ELSE ReturnAndRelease(r, 200)

\* after await safeUnlink(outPath): return jsonError("FFmpeg produced an
\* empty file", 500)
EmptyOutput(r) ==
  /\ clips[r].at = "empty"
  /\ ReturnAndRelease(r, 500)

\* the catch block after await safeUnlink(outPath)
Caught(r) ==
  /\ clips[r].at = "catch"
  /\ ReturnAndRelease(r, IF clips[r].err = "FfmpegTimeoutError" THEN 504 ELSE 500)

\* the steps of a handler that holds a slot
HolderNext ==
  \E r \in Requests :
     \/ Enter(r)
     \/ \E outcome \in FfmpegOutcomes : RunFfmpeg(r, outcome)
     \/ \E size \in StatSizes : Stat(r, size)
     \/ EmptyOutput(r)
     \/ Caught(r)

SemaphoreNext ==
  \/ \E r \in Requests, status \in EarlyStatuses : Reject(r, status)
  \/ \E r \in Requests : Acquire(r)
  \/ HolderNext

SemaphoreSpec == SemaphoreInit /\ [][SemaphoreNext]_vars

\* Every continuation that is ready is run, and FFmpeg ends or is killed.
FairSemaphoreSpec == SemaphoreSpec /\ WF_vars(HolderNext)

(* ----------------------------------------------------------------------- *)
(* Vocabulary of the properties                                            *)
(* ----------------------------------------------------------------------- *)

InCall == pc \in {"attempt", "send", "await"}

\* the call in progress is retrying after lastResp
Retried == InCall /\ attempt = lastAttempt + 1

\* fetchCommentPage threw on lastResp, which rejected iterateChat
Failed ==
  /\ pc \in {"settled", "responded"}
  /\ iterResult.state = "rejected"
  /\ iterResult.error.name = "Error"

\* onBatch threw and iterateChat has settled
Cancelled ==
  /\ pc \in {"settled", "responded"}
  /\ iterResult.state = "rejected"
  /\ iterResult.error.name = "AnalysisTimeoutError"

IsValidPage(resp) == resp.kind = "json" /\ ~resp.errors.present

\* the text of an error response, whole
ErrorText(resp) ==
  CASE resp.kind = "http" -> resp.body
    [] resp.kind = "json" -> Join(resp.errors.list, <<";", " ">>)
    [] OTHER -> resp.message

\* an error that no reading classifies as retryable
PlainlyFatal(resp) ==
  /\ resp.kind # "none"
  /\ ~IsValidPage(resp)
  /\ resp.status \notin {429, 502, 503}
  /\ ~HasTransientWord(ErrorText(resp))

NonEmptyOnly(pages) == SelectSeq(pages, LAMBDA m : Len(m) > 0)

RECURSIVE Flatten(_)
Flatten(pages) == IF Len(pages) = 0 THEN <<>> ELSE Head(pages) \o Flatten(Tail(pages))

Offsets(messages) == [i \in 1..Len(messages) |-> messages[i].offsetSeconds]

StartOffsetOrDefault == IF startOffsetSeconds = NoOffset THEN 0 ELSE startOffsetSeconds

(* ----------------------------------------------------------------------- *)
(* C1                                                                      *)
(* ----------------------------------------------------------------------- *)

C2_TransportRetried ==
  (lastResp.kind = "reject" /\ lastAttempt < 3) => ~Failed

(* ----------------------------------------------------------------------- *)
(* C3                                                                      *)
(* ----------------------------------------------------------------------- *)

\* C3: a non-2xx status other than 429, 502, 503 fails the call on that
\* attempt, with no further request, whatever the body; the error carries the
\* status and at most the first 200 characters of the body.
C3_OtherStatusFatal ==
  (lastResp.kind = "http" /\ lastResp.status \notin {429, 502, 503}) =>
     /\ Failed
     /\ Len(reqLog) = lastAttempt + 1
     /\ \E n \in 0..200 :
          /\ n <= Len(lastResp.body)
          /\ (n < 200 => n = Len(lastResp.body))
          /\ iterResult.error.message =
               HTTP_ERR_PREFIX \o DecStr(lastResp.status) \o <<":", " ">>
                 \o SubSeq(lastResp.body, 1, n)

(* ----------------------------------------------------------------------- *)
(* C4                                                                      *)
(* ----------------------------------------------------------------------- *)

\* C4: a 2xx response is treated as a feed-level error exactly when its first
\* element carries a non-empty errors array (an empty errors array next to a
\* comments object is decoded as a normal page); such an error is retried iff
\* the joined messages contain timeout, rate, 503 or 502 in any letter case and
\* retries remain, and fails the call at once otherwise.
C4_FeedErrorIffNonEmpty ==
  lastResp.kind = "json" =>
    /\ (Retried \/ Failed) <=> (lastResp.errors.present /\ Len(lastResp.errors.list) > 0)
    /\ (lastResp.errors.present /\ Len(lastResp.errors.list) > 0) =>
         (Retried <=> (HasTransientWord(ErrorText(lastResp)) /\ lastAttempt < 3))

(* ----------------------------------------------------------------------- *)
(* C5                                                                      *)
(* ----------------------------------------------------------------------- *)

\* C5: every request carries exactly one position marker, never both; the
\* requests of the first page carry contentOffsetSeconds = the start offset
\* (0 by default) and no cursor; the requests of a later page carry the
\* nextCursor of the page returned just before; the retries of one page
\* re-send the marker of its first request.
C5_OneMarker ==
  /\ \A off \in {NoOffset, 0, 120} :
       /\ Variables("c1", off).keys = {"videoID", "cursor"}
       /\ Variables("c1", off).cursor = "c1"
       /\ Variables(Null, off).keys = {"videoID", "contentOffsetSeconds"}
       /\ Variables(Null, off).contentOffsetSeconds = (IF off = NoOffset THEN 0 ELSE off)
  /\ \A i \in 1..Len(reqLog) :
    LET v == reqLog[i]
    IN  /\ ("cursor" \in v.keys) # ("contentOffsetSeconds" \in v.keys)
        /\ fetchCalls = 1 =>
             /\ "contentOffsetSeconds" \in v.keys
             /\ v.contentOffsetSeconds = StartOffsetOrDefault
        /\ fetchCalls > 1 =>
             /\ "cursor" \in v.keys
             /\ prevNext \notin {Null, ""}
             /\ v.cursor = prevNext
        /\ v = reqLog[1]

\* the second page is being retried: two requests with the cursor of page one
C5_Witness ==
  /\ fetchCalls = 2
  /\ Len(reqLog) = 2
  /\ reqLog[2].cursor = "c2"
  /\ startOffsetSeconds = 120

(* ----------------------------------------------------------------------- *)
(* C6                                                                      *)
(* ----------------------------------------------------------------------- *)

C6_Safety ==
  /\ fetchCalls <= maxPages
  /\ iterResult.state = "fulfilled" =>
       /\ iterResult.pagesProcessed <= maxPages
       /\ iterResult.pagesProcessed = pagesProcessed
       /\ fetchCalls < maxPages =>
            (~Truthy(page.nextCursor) \/ Len(page.messages) = 0)
  \* a further page is fetched only after a page with messages and a cursor
  /\ (pc = "call" /\ fetchCalls > 0) =>
       Truthy(page.nextCursor) /\ Len(page.messages) > 0
  /\ (InCall /\ fetchCalls > 1) =>
       Truthy(prevNext) /\ Len(fetched[fetchCalls - 1]) > 0
  \* a page without messages or without cursor ends the iteration
  /\ (pc \in {"settled", "responded"} /\ fetchCalls = Len(fetched)
        /\ (~Truthy(page.nextCursor) \/ Len(page.messages) = 0)
        /\ cbThrown = NoError) =>
       iterResult.state = "fulfilled"

\* C6: for every maxPages >= 1 and whatever the feed answers, iterateChat
\* makes at most maxPages page fetches and settles; the pagesProcessed it
\* returns is <= maxPages; it returns before maxPages fetches exactly when a
\* page has no next cursor or no messages.
C6_BoundedPages == []C6_Safety /\ <>(iterResult.state # "pending")

\* the feed still offers a next page when the cap stops the iteration
C6_Witness ==
  /\ iterResult.state = "fulfilled"
  /\ iterResult.pagesProcessed = maxPages
  /\ maxPages > 1
  /\ Truthy(cursor)
  /\ Len(page.messages) > 0

(* ----------------------------------------------------------------------- *)
(* C7                                                                      *)
(* ----------------------------------------------------------------------- *)

AllButLast(q) == SubSeq(q, 1, Len(q) - 1)

\* C7: every page with messages goes to onBatch exactly once, pages in the
\* order fetched, messages in the order of the feed's edges; a request is in
\* flight only while the adapter awaits it, and the next page is requested
\* only when onBatch has returned for every page fetched so far.
C7_OrderedDelivery ==
  /\ pc \in {"page", "callback"} => delivered = NonEmptyOnly(AllButLast(fetched))
  /\ pc \notin {"page", "callback"} => delivered = NonEmptyOnly(fetched)
  /\ pc = "page" /\ lastResp.comments.present =>
       /\ Len(page.messages) = Len(lastResp.comments.edges)
       /\ \A i \in 1..Len(page.messages) :
            /\ page.messages[i].offsetSeconds =
                 lastResp.comments.edges[i].contentOffsetSeconds
            /\ page.messages[i].fragments = lastResp.comments.edges[i].fragments
  /\ inFlight => pc = "await"
  /\ (pc \in {"call", "attempt", "send", "await"}) => cbThrown = NoError

\* two pages delivered, the second one of two messages
C7_Witness ==
  /\ Len(delivered) = 2
  /\ Len(delivered[2]) = 2
  /\ delivered[1] # delivered[2]
  /\ pc = "afterBatch"

(* ----------------------------------------------------------------------- *)
(* C8                                                                      *)
(* ----------------------------------------------------------------------- *)

\* C8: when onBatch throws, on the first page or a later one, iterateChat
\* makes no further fetch and rejects with the very error onBatch threw.
C8_CallbackErrorPropagates ==
  (cbThrown # NoError /\ pc # "afterBatch") =>
     /\ pc \in {"settled", "responded"}
     /\ iterResult.state = "rejected"
     /\ iterResult.error = cbThrown
     /\ ~inFlight
     /\ fetchCalls = Len(fetched)
     /\ fetchCalls = Len(delivered)

\* onBatch threw on the second page and iterateChat has rejected
C8_Witness ==
  /\ cbThrown # NoError
  /\ pc = "settled"
  /\ Len(delivered) = 2

(* ----------------------------------------------------------------------- *)
(* C9                                                                      *)
(* ----------------------------------------------------------------------- *)

TimestampsOf(key) ==
  SelectSeq(Offsets(Flatten(delivered)), LAMBDA t : BucketKey(t) = key)

PartialOk ==
  /\ response.status = 200
  /\ response.totalMessages = TotalMessages(buckets)
  /\ response.totalMessages = Len(Flatten(delivered))
  /\ response.bucketsAnalyzed = Cardinality(DOMAIN buckets)

\* C9: the callback throws only with more than 180000 ms elapsed; after it no
\* page is fetched; every message of every batch delivered, the last one
\* included, is in its bucket; the handler answers 200 with totalMessages =
\* the sum of the buckets' messageCount = the number of messages delivered;
\* an iteration stopped by the page cap is answered 200 in the same way.
C9_PartialResults ==
  /\ cbThrown # NoError => cbThrown.name = "AnalysisTimeoutError" /\ elapsed > 180000
  /\ \A key \in DOMAIN buckets :
       /\ buckets[key].messageTimestamps = TimestampsOf(key)
       /\ buckets[key].messageCount = Len(TimestampsOf(key))
  /\ \A i \in 1..Len(delivered) : \A j \in 1..Len(delivered[i]) :
       BucketKey(delivered[i][j].offsetSeconds) \in DOMAIN buckets
  /\ Cancelled => fetchCalls = Len(delivered) /\ ~inFlight
  /\ (pc = "responded" /\ Cancelled) => PartialOk
  /\ (pc = "responded" /\ iterResult.state = "fulfilled"
        /\ iterResult.pagesProcessed = maxPages /\ Truthy(cursor)) => PartialOk

\* the deadline passed during the second page: 200 with all three messages
C9_Witness ==
  /\ pc = "responded"
  /\ Cancelled
  /\ response.status = 200
  /\ response.totalMessages = 3
  /\ Len(delivered) = 2

(* ----------------------------------------------------------------------- *)
(* C10                                                                     *)
(* ----------------------------------------------------------------------- *)

\* C10: when a page fetch fails for good the handler answers 502 with the
\* message of that error and without moments, also when earlier pages are in
\* the buckets; a rejected iteration is answered 200 only when the error is
\* the handler's own timeout.
C10_UpstreamFailure ==
  pc = "responded" =>
    /\ Failed =>
         /\ response.status = 502
         /\ response.error = FAILED_PREFIX \o lastError.message
         /\ lastError.name = "Error"
         /\ response.fields = {"error"}
    /\ (response.status = 200 /\ iterResult.state = "rejected") =>
         iterResult.error = AnalysisTimeoutError
    /\ response.status = 502 => Failed

\* the second page failed with 404 after the first page was ingested
C10_Witness ==
  /\ pc = "responded"
  /\ response.status = 502
  /\ lastResp.status = 404
  /\ Cardinality(DOMAIN buckets) > 0

(* ----------------------------------------------------------------------- *)
(* C11                                                                     *)
(* ----------------------------------------------------------------------- *)

\* C11: every successful (200) analysis response carries a timeline (one
\* {sec, count} entry per populated bucket, ascending in sec).  The response
\* the handler serialises has no such field at all.
C11_TimelineEmitted ==
  (pc = "responded" /\ response.status = 200) => "timeline" \in response.fields

(* ----------------------------------------------------------------------- *)
(* Vocabulary of the analyzer's properties                                 *)
(* ----------------------------------------------------------------------- *)

\* The messages given to addMessage so far, in the order of the calls.
Arrived == Flatten(delivered)

(* ----------------------------------------------------------------------- *)
(* C12                                                                     *)
(* ----------------------------------------------------------------------- *)

\* C12: whatever was added (windowSec > 0), every bucket is filed under its
\* own startSec, which is a multiple of windowSec, counts as many messages as
\* it holds timestamps, and holds only timestamps t with
\* startSec <= t < startSec + windowSec.
C12_BucketsWellFormed ==
  windowSec > 0 =>
    \A k \in DOMAIN buckets :
       LET b == buckets[k]
       IN  /\ b.startSec = k
           /\ k % windowSec = 0
           /\ b.messageCount = Len(b.messageTimestamps)
           /\ \A i \in 1..Len(b.messageTimestamps) :
                 /\ b.startSec <= b.messageTimestamps[i]
                 /\ b.messageTimestamps[i] < b.startSec + windowSec

\* windows of 20 s: the batch around 630 s is split over two buckets, and a
\* third bucket holds several messages
C12_Witness ==
  /\ windowSec = 20
  /\ {620, 640} \subseteq DOMAIN buckets
  /\ \E k \in DOMAIN buckets : buckets[k].messageCount >= 2

(* ----------------------------------------------------------------------- *)
(* C13                                                                     *)
(* ----------------------------------------------------------------------- *)

\* msg falls into the window that starts at k
InWindow(msg, k) == k <= msg.offsetSeconds /\ msg.offsetSeconds < k + windowSec

\* The messages the batches are made of, and what scoreMessage returns on each.
TestMessages == UNION {{batch[i] : i \in 1..Len(batch)} : batch \in Batches}
Scores == [m \in TestMessages |-> scoreMessage(m)]

\* The messages of the window at k that score, in the order they arrived.
ScoringOf(k) ==
  SelectSeq(Arrived, LAMBDA m : InWindow(m, k) /\ Scores[m].reactionScore > 0)

IsPrefix(s, t) == Len(s) <= Len(t) /\ SubSeq(t, 1, Len(s)) = s

\* The samples of every bucket are the first 80 characters of its first (up
\* to 10) scoring messages, in arrival order.
C13_Samples ==
  \A k \in DOMAIN buckets :
     LET scoring == ScoringOf(k)
         kept == IF Len(scoring) < 10 THEN Len(scoring) ELSE 10
     IN  /\ Len(buckets[k].sampleMessages) <= 10
         /\ buckets[k].sampleMessages =
              [i \in 1..kept |->
                 SubSeq(scoring[i].text, 1,
                        IF Len(scoring[i].text) < 80 THEN Len(scoring[i].text) ELSE 80)]

\* A step leaves the samples a bucket holds where they are.
C13_SamplesKept ==
  \A k \in DOMAIN buckets :
     /\ k \in DOMAIN buckets'
     /\ IsPrefix(buckets[k].sampleMessages, buckets'[k].sampleMessages)

\* C13: every bucket holds at most 10 samples; a sample is appended only for
\* a message of positive reactionScore and is the first 80 characters of its
\* text; samples are never removed or reordered, so the samples of a bucket
\* are those of its first (up to 10) scoring messages in arrival order.
C13_SampleMessages == []C13_Samples /\ [][C13_SamplesKept]_vars

\* a bucket that is full although an eleventh scoring message arrived, with a
\* sample cut to 80 characters and a message that did not score
C13_Witness ==
  \E k \in DOMAIN buckets :
     /\ Len(buckets[k].sampleMessages) = 10
     /\ Len(ScoringOf(k)) > 10
     /\ buckets[k].messageCount > Len(ScoringOf(k))
     /\ \E i \in 1..10 : /\ Len(buckets[k].sampleMessages[i]) = 80
                          /\ Len(ScoringOf(k)[i].text) > 80

(* ----------------------------------------------------------------------- *)
(* C14                                                                     *)
(* ----------------------------------------------------------------------- *)

\* reactionScore, emoteCount and the five category scores, in one tuple
ScoreVec(score) ==
  <<score.reactionScore, score.emoteCount>>
    \o [i \in 1..Len(Categories) |-> score.categories[Categories[i]]]

BucketVec(b) ==
  <<b.reactionScore, b.emoteCount>>
    \o [i \in 1..Len(Categories) |-> b.categoryScores[Categories[i]]]

RECURSIVE SumAt(_, _)
SumAt(vecs, j) ==
  IF Len(vecs) = 0 THEN 0 ELSE Head(vecs)[j] + SumAt(Tail(vecs), j)

SumVecs(vecs) == [j \in 1..(2 + Len(Categories)) |-> SumAt(vecs, j)]

\* The messages of the window at k, in the order they arrived.
MessagesOf(k) == SelectSeq(Arrived, LAMBDA m : InWindow(m, k))

\* No score of a message is negative, and the totals of a bucket are the
\* sums of what the scorer returns on each of its messages taken alone.
C14_Scores ==
  /\ \A i \in 1..Len(Arrived) :
        LET vec == ScoreVec(Scores[Arrived[i]])
        IN  \A j \in 1..(2 + Len(Categories)) : vec[j] >= 0
  /\ \A k \in DOMAIN buckets :
        LET messages == MessagesOf(k)
            vecs == [i \in 1..Len(messages) |-> ScoreVec(Scores[messages[i]])]
        IN  BucketVec(buckets[k]) = SumVecs(vecs)

\* A step lowers no total of a bucket.
C14_TotalsGrow ==
  \A k \in DOMAIN buckets :
     /\ k \in DOMAIN buckets'
     /\ buckets'[k].messageCount >= buckets[k].messageCount
     /\ \A j \in 1..(2 + Len(Categories)) :
           BucketVec(buckets'[k])[j] >= BucketVec(buckets[k])[j]

\* C14: scoreMessage is deterministic and stateless and returns a
\* reactionScore, an emoteCount and five category scores that are all >= 0,
\* so that no total of a bucket ever decreases.
C14_ScoresNonNegative == []C14_Scores /\ [][C14_TotalsGrow]_vars

\* a bucket with a message that scores nothing, emotes, and a total that
\* holds the half point of an ALL-CAPS message
C14_Witness ==
  \E k \in DOMAIN buckets :
     /\ buckets[k].reactionScore % 2 = 1
     /\ buckets[k].emoteCount > 0
     /\ buckets[k].messageCount > Len(ScoringOf(k))
     /\ Len(ScoringOf(k)) > 1

(* ----------------------------------------------------------------------- *)
(* C15                                                                     *)
(* ----------------------------------------------------------------------- *)

\* The places of text where 'is gifting ' is followed by a digit.
GiftPlaces(text) ==
  LET t == ToLowerCase(text)
      phrase == IS_GIFTING \o <<" ">>
  IN  {i \in 1..(Len(t) - Len(phrase)) :
         /\ SubSeq(t, i, i + Len(phrase) - 1) = phrase
         /\ t[i + Len(phrase)] \in DigitChars}

HasGift(text) == GiftPlaces(text) # {}

\* N of 'is gifting N': all the digits that follow the phrase, at the first
\* place where the phrase is followed by digits.
GiftN(text) ==
  LET first == MinOf(GiftPlaces(text)) + Len(IS_GIFTING) + 1
      last == MaxOf({j \in first..Len(text) :
                       \A h \in first..j : text[h] \in DigitChars})
  IN  ParseInt(SubSeq(text, first, last))

\* b is min(round(0.6 * n), 20)
IsBonus(b, n) ==
  \/ b = 20 /\ 6 * n >= 195
  \/ b < 20 /\ 10 * b - 5 <= 6 * n /\ 6 * n < 10 * b + 5

IsBan(msg) == Includes(ToLowerCase(msg.text), HAS_BEEN_BANNED)

ScoresNothing(msg) == \A cat \in CategorySet : Scores[msg].categories[cat] = 0

\* The keys of the merged window of the bucket at index idx of keys.
WindowKeys(keys, idx) == {keys[i] : i \in {idx, idx + 1} \cap (1..Len(keys))}

\* The messages of that window, as a set.
WindowMessages(keys, idx) ==
  {Arrived[i] : i \in {j \in 1..Len(Arrived) :
                          \E k \in WindowKeys(keys, idx) : InWindow(Arrived[j], k)}}

\* moment m is the one emitted for the window score w
IsMomentOf(m, w) ==
  /\ m.startSec = (IF w.key > 20 THEN w.key - 20 ELSE 0)
  /\ m.score = w.score
  /\ m.messageCount = w.merged.messageCount
  /\ m.categoryScores = w.merged.categoryScores
  /\ m.sampleMessages = w.merged.sampleMessages

\* A banned message gets 15 points or more on reactionScore and on ban, and
\* so does the ban total of its bucket.
BanCredited ==
  /\ \A i \in 1..Len(Arrived) :
        IsBan(Arrived[i]) =>
          /\ Scores[Arrived[i]].reactionScore >= Pts(15)
          /\ Scores[Arrived[i]].categories.ban >= Pts(15)
  /\ \A k \in DOMAIN buckets :
        (\E i \in 1..Len(MessagesOf(k)) : IsBan(MessagesOf(k)[i])) =>
          buckets[k].categoryScores.ban >= Pts(15)

OthersScoreNothing(messages) ==
  \A msg \in messages : ~IsBan(msg) => ScoresNothing(msg)

\* the banned messages themselves score less in fun and hype than in ban,
\* and no more than that in sub and donation
BanLeads(messages) ==
  \A msg \in messages :
     IsBan(msg) =>
       /\ Scores[msg].categories.fun < Scores[msg].categories.ban
       /\ Scores[msg].categories.hype < Scores[msg].categories.ban
       /\ Scores[msg].categories.sub <= Scores[msg].categories.ban
       /\ Scores[msg].categories.donation <= Scores[msg].categories.ban

\* A moment of a window holding a banned message is tagged 'ban' when the
\* other messages of the window score nothing and, with leading, when the
\* banned messages lead in ban as well.
BanTagged(leading) ==
  pc = "detected" =>
    LET keys == SortedKeys(DOMAIN buckets)
        windowScores == WindowScores(buckets)
    IN  \A idx \in 1..Len(keys) :
          LET messages == WindowMessages(keys, idx)
          IN  (/\ \E b \in messages : IsBan(b)
               /\ OthersScoreNothing(messages)
               /\ leading => BanLeads(messages)) =>
                \A i \in 1..Len(moments) :
                   IsMomentOf(moments[i], windowScores[idx]) => moments[i].tag = "ban"

\* C16 as stated: a message containing 'has been banned' (any case) gets at
\* least 15 on reactionScore and categories.ban, so the ban total of its
\* bucket stays >= 15; and when every other message of the merged window
\* scores zero in all categories, a moment emitted for that window has tag
\* 'ban'.
C16_BanTagAsStated ==
  BanCredited /\ BanTagged(FALSE)

\* C16, amended: as above, the tag being 'ban' when moreover the banned
\* messages themselves score less in fun and hype than in ban and no more in
\* sub and donation than in ban.
C16_BanTag ==
  BanCredited /\ BanTagged(TRUE)

\* a moment tagged ban for a window of a ban notice in capitals and a
\* message that scores nothing
C16_Witness ==
  /\ pc = "detected"
  /\ \E i \in 1..Len(moments) :
        /\ moments[i].tag = "ban"
        /\ moments[i].messageCount >= 2
        /\ \E idx \in 1..Len(SortedKeys(DOMAIN buckets)) :
              LET messages == WindowMessages(SortedKeys(DOMAIN buckets), idx)
              IN  /\ IsMomentOf(moments[i], WindowScores(buckets)[idx])
                  /\ \E b \in messages : IsBan(b) /\ b.text # ToLowerCase(b.text)
                  /\ \E msg \in messages : ~IsBan(msg)
                  /\ OthersScoreNothing(messages)
                  /\ BanLeads(messages)

(* ----------------------------------------------------------------------- *)
(* C17                                                                     *)
(* ----------------------------------------------------------------------- *)

\* C17: for clipDurationSec > 0 and minGapSec >= 0 the moments returned are
\* strictly increasing in startSec and no two of them are within the gap of
\* each other: never m1.startSec < m2.endSec + minGapSec together with
\* m1.endSec > m2.startSec - minGapSec; with the defaults (clips of 30 s,
\* gap of 45 s) the buckets at 600 and 630 never both yield a moment (their
\* clips start at 580 and 610).
C17_Separated ==
  (pc = "detected" /\ opts.clipDurationSec > 0 /\ opts.minGapSec >= 0) =>
    /\ \A i, j \in 1..Len(moments) :
          i < j => moments[i].startSec < moments[j].startSec
    /\ \A i, j \in 1..Len(moments) :
          i # j => ~ /\ moments[i].startSec < moments[j].endSec + opts.minGapSec
                     /\ moments[i].endSec > moments[j].startSec - opts.minGapSec
    /\ (opts.clipDurationSec = 30 /\ opts.minGapSec = 45) =>
          ~ /\ \E i \in 1..Len(moments) : moments[i].startSec = 580
            /\ \E i \in 1..Len(moments) : moments[i].startSec = 610

\* the defaults, the buckets at 600, 630 and 3000 all at the threshold: the
\* first and the last yield moments, the one at 630 is too close to the first
C17_Witness ==
  /\ pc = "detected"
  /\ opts = ROUTE_OPTS
  /\ {600, 630, 3000} \subseteq DOMAIN buckets
  /\ \A i \in 1..Len(WindowScores(buckets)) :
        AtLeastThreshold(WindowScores(buckets)[i].score,
                         [j \in 1..Len(WindowScores(buckets)) |-> WindowScores(buckets)[j].score],
                         opts.thresholdFactor)
  /\ Len(moments) = 2
  /\ moments[1].startSec = 580
  /\ moments[2].startSec = 2980

(* ----------------------------------------------------------------------- *)
(* C18                                                                     *)
(* ----------------------------------------------------------------------- *)

\* x >= mean + factor * stddev over xs, with the variance taken as the mean
\* of the squares less the square of the mean: for X the numerators over a
\* common denominator, S their sum, Q the sum of their squares and n their
\* number, x - mean is (n * X - S) / n and the variance (n * Q - S^2) / n^2.
Above(x, xs, factor) ==
  LET n == Len(xs)
      unit == Lcm(x.den, LcmDen(xs))
      X(y) == BigMul(Big(y.num), Big(unit \div y.den))
      S == BigSum([j \in 1..n |-> X(xs[j])])
      Q == BigSum([j \in 1..n |-> BigMul(X(xs[j]), X(xs[j]))])
      nX == BigMul(Big(n), X(x))
      spread == BigMul(Big(factor.num * factor.num), BigSub(BigMul(Big(n), Q), BigMul(S, S)))
      over == BigMul(Big(factor.den * factor.den), BigMul(BigSub(nX, S), BigSub(nX, S)))
      under == BigMul(Big(factor.den * factor.den), BigMul(BigSub(S, nX), BigSub(S, nX)))
  IN  IF BigLeq(S, nX)
      THEN factor.num <= 0 \/ BigLeq(spread, over)
      ELSE factor.num < 0 /\ BigLeq(under, spread)

AllScores == [i \in 1..Len(WindowScores(buckets)) |-> WindowScores(buckets)[i].score]

\* C18: the score of every moment returned is at least the mean of the
\* composite scores of all the buckets plus thresholdFactor times their
\* population standard deviation.
C18_AboveThreshold ==
  pc = "detected" =>
    LET xs == AllScores
    IN  \A i \in 1..Len(moments) : Above(moments[i].score, xs, opts.thresholdFactor)

\* a positive factor, a moment, and a bucket at the mean or over it that the
\* deviation keeps out
C18_Witness ==
  /\ pc = "detected"
  /\ opts.thresholdFactor.num > 0
  /\ Len(moments) >= 1
  /\ LET xs == AllScores
     IN  \E j \in 1..Len(xs) :
            /\ Above(xs[j], xs, Frac(0, 1))
            /\ ~ Above(xs[j], xs, opts.thresholdFactor)
            /\ \A i \in 1..Len(moments) : moments[i].score # xs[j]

(* ----------------------------------------------------------------------- *)
(* C19                                                                     *)
(* ----------------------------------------------------------------------- *)

\* the order in which ties are settled
TagOrder == <<"fun", "hype", "ban", "sub", "donation">>

\* the value of the highest category of a moment
TopValue(m) == MaxOf({m.categoryScores[TagOrder[i]] : i \in 1..Len(TagOrder)})

\* the categories of a moment at that value, as places in TagOrder
TopPlaces(m) == {i \in 1..Len(TagOrder) : m.categoryScores[TagOrder[i]] = TopValue(m)}

\* C19: the tag of a moment is the category with the highest value in the
\* moment's categoryScores, the earliest of fun, hype, ban, sub, donation
\* when several share that value, and hype when all five are zero; it is
\* always one of the five.
C19_Tag ==
  pc = "detected" =>
    \A i \in 1..Len(moments) :
       LET m == moments[i]
       IN  /\ m.tag \in {"fun", "hype", "ban", "sub", "donation"}
           /\ TopValue(m) = 0 => m.tag = "hype"
           /\ TopValue(m) # 0 => m.tag = TagOrder[MinOf(TopPlaces(m))]

\* a moment whose categories are all zero, and one whose highest value is
\* shared by two categories
C19_Witness ==
  /\ pc = "detected"
  /\ \E i \in 1..Len(moments) : TopValue(moments[i]) = 0
  /\ \E i \in 1..Len(moments) :
        /\ TopValue(moments[i]) > 0
        /\ Cardinality(TopPlaces(moments[i])) >= 2

(* ----------------------------------------------------------------------- *)
(* C20                                                                     *)
(* ----------------------------------------------------------------------- *)

\* the start of the clip of the bucket at k
StartFor(k) == IF k - 20 > 0 THEN k - 20 ELSE 0

\* the windows of ws that moment m may come from
SourcesOf(m, ws) == {j \in 1..Len(ws) : IsMomentOf(m, ws[j])}

\* C20: every moment returned lasts clipDurationSec and starts at
\* max(0, k - 20) for the key k of a bucket it was computed from; no bucket
\* yields more than one moment (the moments starting at one place are no
\* more than the buckets they may come from); when maxHighlights > 0 there
\* are at most maxHighlights moments.
C20_Moments ==
  pc = "detected" =>
    LET ws == WindowScores(buckets)
    IN  /\ \A i \in 1..Len(moments) :
              /\ moments[i].endSec - moments[i].startSec = opts.clipDurationSec
              /\ \E j \in SourcesOf(moments[i], ws) :
                     /\ ws[j].key \in DOMAIN buckets
                     /\ moments[i].startSec = StartFor(ws[j].key)
        /\ \A i \in 1..Len(moments) :
              Cardinality({h \in 1..Len(moments) : moments[h].startSec = moments[i].startSec})
                <= Cardinality(UNION {SourcesOf(moments[h], ws) :
                                       h \in {g \in 1..Len(moments) :
                                                  moments[g].startSec = moments[i].startSec}})
        /\ Len(moments) <= Cardinality(DOMAIN buckets)
        /\ opts.maxHighlights > 0 => Len(moments) <= opts.maxHighlights

\* the cap reached where more moments would have been returned without it,
\* one of them for a bucket in the first 20 seconds
C20_Witness ==
  /\ pc = "detected"
  /\ opts.maxHighlights > 0
  /\ Len(moments) = opts.maxHighlights
  /\ Len(findHypeMoments(buckets, [opts EXCEPT !.maxHighlights = 0])) > Len(moments)
  /\ \E k \in DOMAIN buckets : k < 20
  /\ \E i \in 1..Len(moments) : moments[i].startSec = 0

(* ----------------------------------------------------------------------- *)
(* C22                                                                     *)
(* ----------------------------------------------------------------------- *)

\* the call of findHypeMoments in the analyzer
Detecting == pc = "ingest" /\ pc' = "detected"

\* the bucket at k has the same fields before and after the step
SameBucket(k) ==
  /\ buckets'[k].messageCount = buckets[k].messageCount
  /\ buckets'[k].reactionScore = buckets[k].reactionScore
  /\ buckets'[k].emoteCount = buckets[k].emoteCount
  /\ buckets'[k].categoryScores = buckets[k].categoryScores
  /\ buckets'[k].messageTimestamps = buckets[k].messageTimestamps
  /\ buckets'[k].sampleMessages = buckets[k].sampleMessages

C22_Untouched ==
  Detecting => /\ DOMAIN buckets' = DOMAIN buckets
               /\ \A k \in DOMAIN buckets : SameBucket(k)

TwoWindowsFrom(k) ==
  SelectSeq(Arrived, LAMBDA m : k <= m.offsetSeconds /\ m.offsetSeconds < k + 2 * windowSec)

\* moment m counts the messages in the two windows from k, and nothing else
CountsTwoWindows(m, k) ==
  LET messages == TwoWindowsFrom(k)
      sums == SumVecs([i \in 1..Len(messages) |-> ScoreVec(Scores[messages[i]])])
  IN  /\ m.startSec = (IF k > 20 THEN k - 20 ELSE 0)
      /\ m.messageCount = Len(messages)
      /\ \A i \in 1..Len(Categories) : m.categoryScores[Categories[i]] = sums[2 + i]

\* C23: the window merged for the bucket at key k is made of that bucket and
\* of the bucket at k + windowSec only, bucket k being scored on its own
\* data when there is none at k + windowSec: the messageCount and the
\* categoryScores of every moment returned count the messages with offsets
\* in [k, k + 2 * windowSec) and no other.
C23_AdjacentOnly ==
  pc = "detected" =>
    \A i \in 1..Len(moments) :
       \E k \in DOMAIN buckets : CountsTwoWindows(moments[i], k)

(* ----------------------------------------------------------------------- *)
(* C24                                                                     *)
(* ----------------------------------------------------------------------- *)

\* the largest number of the timestamps that lie in one interval [t, t + 5)
MaxCountIn5(timestamps) ==
  MaxOf({Cardinality({i \in 1..Len(timestamps) :
                        t <= timestamps[i] /\ timestamps[i] < t + 5})
           : t \in {timestamps[j] : j \in 1..Len(timestamps)}})

\* The burst score in tenths from that number: 0 under 10 timestamps and
\* under 25 in the interval, round((maxCount / 5)^2 / 5 * 10) otherwise.
BurstFrom5(timestamps) ==
  IF Len(timestamps) < 10 THEN 0
  ELSE IF MaxCountIn5(timestamps) < 25 THEN 0
  ELSE (4 * MaxCountIn5(timestamps) * MaxCountIn5(timestamps) + 25) \div 50

\* C24: computeBurstScore is 0 for a bucket of fewer than 10 timestamps and
\* otherwise follows from maxCount, the largest number of the bucket's
\* timestamps within one interval [t, t + 5): 0 when maxCount < 25,
\* round((maxCount / 5)^2 / 5 * 10) / 10 otherwise, and so never between 0
\* and 5.  Stated on the burstScore of the moments returned.
C24_Burst ==
  pc = "detected" =>
    LET ws == WindowScores(buckets)
    IN  \A i \in 1..Len(moments) :
           /\ moments[i].burstScore = 0 \/ moments[i].burstScore >= 50
           /\ \E j \in 1..Len(ws) :
                 /\ IsMomentOf(moments[i], ws[j])
                 /\ moments[i].burstScore = BurstFrom5(buckets[ws[j].key].messageTimestamps)

(* ----------------------------------------------------------------------- *)
(* C25                                                                     *)
(* ----------------------------------------------------------------------- *)

\* all the windows have one composite score
AllEqual ==
  LET xs == AllScores
  IN  \A i \in 1..Len(xs) : xs[i] = xs[1]

\* The starts of the clips kept when the keys are gone through from index i
\* on, in ascending order, a clip being kept when it is not in padded
\* conflict with one kept before.
RECURSIVE GreedyStarts(_, _, _)
GreedyStarts(keys, i, kept) ==
  IF i > Len(keys) THEN kept
  ELSE LET start == StartFor(keys[i])
           end == start + opts.clipDurationSec
           conflict == \E h \in 1..Len(kept) :
                          /\ start < kept[h] + opts.clipDurationSec + opts.minGapSec
                          /\ end > kept[h] - opts.minGapSec
       IN  GreedyStarts(keys, i + 1, IF conflict THEN kept ELSE Append(kept, start))

MomentStarts == [i \in 1..Len(moments) |-> moments[i].startSec]

\* C25 as stated: when all the composite scores of a non-empty bucket map
\* are equal, every bucket is a candidate and the candidates are gone
\* through in ascending key order: the earliest bucket yields a moment and
\* the result is the left-to-right greedy selection under the padded overlap
\* test; a map of one bucket yields exactly one moment.
C25_GreedyAsStated ==
  (pc = "detected" /\ DOMAIN buckets # {} /\ AllEqual) =>
    /\ MomentStarts = GreedyStarts(SortedKeys(DOMAIN buckets), 1, <<>>)
    /\ moments[1].startSec = StartFor(MinOf(DOMAIN buckets))
    /\ Cardinality(DOMAIN buckets) = 1 => Len(moments) = 1

\* C25, amended: as above, the result being the first maxHighlights clips of
\* the left-to-right greedy selection when maxHighlights > 0, and all of
\* them when it is 0.
C25_Greedy ==
  (pc = "detected" /\ DOMAIN buckets # {} /\ AllEqual) =>
    LET greedy == GreedyStarts(SortedKeys(DOMAIN buckets), 1, <<>>)
    IN  /\ MomentStarts =
             (IF opts.maxHighlights > 0 /\ opts.maxHighlights < Len(greedy)
              THEN SubSeq(greedy, 1, opts.maxHighlights) ELSE greedy)
        /\ moments[1].startSec = StartFor(MinOf(DOMAIN buckets))
        /\ Cardinality(DOMAIN buckets) = 1 => Len(moments) = 1

\* three buckets of one score, the second in conflict with the first: the
\* first and the third yield the moments
C25_Witness ==
  /\ pc = "detected"
  /\ AllEqual
  /\ Cardinality(DOMAIN buckets) >= 3
  /\ Len(moments) >= 2
  /\ Len(moments) < Cardinality(DOMAIN buckets)
  /\ opts.maxHighlights = 0

(* ----------------------------------------------------------------------- *)
(* C26                                                                     *)
(* ----------------------------------------------------------------------- *)

Reversed(seq) == [i \in 1..Len(seq) |-> seq[Len(seq) + 1 - i]]

\* the messages that arrived, the batches taken in the reverse order
BatchesReversed == Flatten(Reversed(delivered))

\* the messages that arrived, sorted by offset
ByOffset ==
  StableSort(Arrived, [i, j \in 1..Len(Arrived) |->
                         Arrived[i].offsetSeconds < Arrived[j].offsetSeconds])

\* how many times t is in the sequence
Times(seq, t) == Cardinality({i \in 1..Len(seq) : seq[i] = t})

\* maps a and b have the same keys and, in every bucket, the same counts and
\* scores and the same timestamps up to their order
SameUpToOrder(a, b) ==
  /\ DOMAIN a = DOMAIN b
  /\ \A k \in DOMAIN a :
        /\ a[k].messageCount = b[k].messageCount
        /\ a[k].reactionScore = b[k].reactionScore
        /\ a[k].emoteCount = b[k].emoteCount
        /\ a[k].categoryScores = b[k].categoryScores
        /\ Len(a[k].messageTimestamps) = Len(b[k].messageTimestamps)
        /\ \A i \in 1..Len(a[k].messageTimestamps) :
              Times(a[k].messageTimestamps, a[k].messageTimestamps[i])
                = Times(b[k].messageTimestamps, a[k].messageTimestamps[i])

\* C26: bucketing does not depend on the order of arrival: the messages
\* that arrived, fed to addMessage in the reverse order, batch by batch in
\* the reverse order, or sorted by offset, give a map of the same keys whose
\* buckets have the same messageCount, reactionScore, emoteCount and
\* categoryScores and the same timestamps up to their order.
C26_OrderFree ==
  pc = "ingest" =>
    /\ SameUpToOrder(buckets, AddAll(EmptyBuckets, Reversed(Arrived)))
    /\ SameUpToOrder(buckets, AddAll(EmptyBuckets, BatchesReversed))
    /\ SameUpToOrder(buckets, AddAll(EmptyBuckets, ByOffset))

\* messages that arrived out of order over two buckets or more, the map of
\* the reverse order differing in the order of timestamps or in the samples
C26_Witness ==
  /\ pc = "ingest"
  /\ Cardinality(DOMAIN buckets) >= 2
  /\ \E i, j \in 1..Len(Arrived) :
        /\ i < j
        /\ BucketKey(Arrived[i].offsetSeconds) > BucketKey(Arrived[j].offsetSeconds)
  /\ AddAll(EmptyBuckets, Reversed(Arrived)) # buckets

(* ----------------------------------------------------------------------- *)
(* C27                                                                     *)
(* ----------------------------------------------------------------------- *)

\* the sum of the five category scores
CategorySum(categories) ==
  categories.fun + categories.hype + categories.ban + categories.sub + categories.donation

\* C27: the reactionScore scoreMessage returns on a message is the sum of
\* its five category scores and at least twice its emoteCount; hence the
\* reactionScore of every bucket is the sum of its categoryScores after any
\* sequence of addMessage calls.
C27_ScoreIsCategorySum ==
  /\ \A i \in 1..Len(Arrived) :
        LET score == Scores[Arrived[i]]
        IN  /\ score.reactionScore = CategorySum(score.categories)
            /\ Pts(2 * score.emoteCount) <= score.reactionScore
  /\ \A k \in DOMAIN buckets :
        buckets[k].reactionScore = CategorySum(buckets[k].categoryScores)

\* a bucket holding a message in capitals, a ban notice with emotes or a
\* gift of 15 or more, and a message that scores nothing
C27_Witness ==
  \E k \in DOMAIN buckets :
     /\ buckets[k].reactionScore % 2 = 1
     /\ buckets[k].categoryScores.hype % 2 = 1
     /\ \E h \in DOMAIN buckets :
           /\ buckets[h].emoteCount > 0
           /\ buckets[h].reactionScore > Pts(2 * buckets[h].emoteCount)

(* ----------------------------------------------------------------------- *)
(* C28                                                                     *)
(* ----------------------------------------------------------------------- *)

\* The indexes of the buckets (two at most) before the one at idx, and the
\* messages they hold.
Preceding(idx) == {i \in 1..(idx - 1) : i >= idx - 2}
PrecedingTotal(keys, idx) == SumCounts(buckets, {keys[i] : i \in Preceding(idx)})

\* C28: every bucket of a map built by the accumulator holds a message or
\* more, so prevAvg >= 1 at every index but the first and the rule for
\* prevAvg < 1 is never applied, whatever the empty windows between two
\* buckets; the velocity multiplier is one of 1.0, 1.2, 1.5, 2.0, 2.5, it
\* is 1.0 for the first bucket and 2.0 only when
\* 3 <= messageCount / prevAvg < 4.  Velocities are in tenths.
C28_Velocity ==
  /\ \A k \in DOMAIN buckets : buckets[k].messageCount >= 1
  /\ pc = "detected" =>
       LET keys == SortedKeys(DOMAIN buckets)
           ws == WindowScores(buckets)
       IN  \A idx \in 1..Len(ws) :
              LET count == buckets[keys[idx]].messageCount
                  prevTotal == PrecedingTotal(keys, idx)
                  prevCount == Cardinality(Preceding(idx))
              IN  /\ ws[idx].velocityScore \in {10, 12, 15, 20, 25}
                  /\ idx = 1 => ws[idx].velocityScore = 10
                  /\ idx > 1 => prevTotal >= prevCount
                  /\ ws[idx].velocityScore = 20 =>
                        /\ idx > 1
                        /\ 3 * prevTotal <= count * prevCount
                        /\ count * prevCount < 4 * prevTotal

\* a bucket of more than 5 messages after windows without messages, its
\* velocity not 2.0, and a bucket of velocity 2.0
C28_Witness ==
  /\ pc = "detected"
  /\ LET keys == SortedKeys(DOMAIN buckets)
         ws == WindowScores(buckets)
     IN  /\ \E idx \in 2..Len(ws) :
               /\ buckets[keys[idx]].messageCount > 5
               /\ keys[idx] - keys[idx - 1] > 2 * windowSec
               /\ ws[idx].velocityScore # 20
         /\ \E idx \in 2..Len(ws) : ws[idx].velocityScore = 20

(* ----------------------------------------------------------------------- *)
(* C29                                                                     *)
(* ----------------------------------------------------------------------- *)

\* the windows of ws that reach the threshold
Reaching(ws, xs) == {j \in 1..Len(ws) : Above(ws[j].score, xs, opts.thresholdFactor)}

\* window w has a moment in the result
Emitted(w) == \E i \in 1..Len(moments) : IsMomentOf(moments[i], w)

\* the clip of window w, padded by minGapSec, meets moment m
PaddedConflict(w, m) ==
  /\ StartFor(w.key) < m.endSec + opts.minGapSec
  /\ StartFor(w.key) + opts.clipDurationSec > m.startSec - opts.minGapSec

\* C29: with maxHighlights = 0 the result is empty exactly when no bucket
\* reaches the threshold; a candidate of the highest score is always
\* emitted; and every bucket that reaches the threshold and is not emitted
\* is in padded conflict (start < e + minGap and end > s - minGap) with an
\* emitted moment whose score is at least its own.
C29_MaximalGreedy ==
  (pc = "detected" /\ opts.maxHighlights = 0) =>
    LET ws == WindowScores(buckets)
        xs == [j \in 1..Len(ws) |-> ws[j].score]
        reaching == Reaching(ws, xs)
    IN  /\ (moments = <<>>) <=> (reaching = {})
        /\ reaching # {} =>
              \E j \in reaching :
                 /\ \A l \in reaching : ~FracLess(ws[j].score, ws[l].score)
                 /\ Emitted(ws[j])
        /\ \A j \in reaching :
              ~Emitted(ws[j]) =>
                 \E i \in 1..Len(moments) :
                    /\ PaddedConflict(ws[j], moments[i])
                    /\ ~FracLess(moments[i].score, ws[j].score)

\* a bucket that reaches the threshold is left out for a moment of a higher
\* score that comes after it
C29_Witness ==
  /\ pc = "detected"
  /\ opts.maxHighlights = 0
  /\ LET ws == WindowScores(buckets)
         xs == [j \in 1..Len(ws) |-> ws[j].score]
     IN  \E j \in Reaching(ws, xs) :
            /\ ~Emitted(ws[j])
            /\ \E i \in 1..Len(moments) :
                  /\ moments[i].startSec > StartFor(ws[j].key)
                  /\ FracLess(ws[j].score, moments[i].score)
                  /\ PaddedConflict(ws[j], moments[i])

(* ----------------------------------------------------------------------- *)
(* C21                                                                     *)
(* ----------------------------------------------------------------------- *)

\* the requests whose acquire has resolved and that have not called release
Holders ==
  {r \in Requests : clips[r].at \in {"granted", "ffmpeg", "stat", "empty", "catch"}}

Queued == {r \in Requests : clips[r].at = "queued"}

\* the queued caller whose acquire call is the oldest
LongestWaiting ==
  asked[MinOf({i \in 1..Len(asked) : asked[i] \in Queued})]

\* the acquire calls resolve in the order they were made
ServedInOrder ==
  /\ Len(grants) <= Len(asked)
  /\ \A i \in 1..Len(grants) : grants[i] = asked[i]

\* nobody waits while a slot is free
NoIdleSlot == Queued # {} => ~(max # NaN /\ Cardinality(Holders) < max)

\* a handler that got its slot releases it once, as it returns, on each of
\* its paths; no other handler releases
OneRelease ==
  \A r \in Requests :
     /\ clips[r].releases = (IF clips[r].at = "done" THEN 1 ELSE 0)
     /\ clips[r].at = "done" => clips[r].status \in {200, 500, 504}
     /\ clips[r].status = 504 => clips[r].err = "FfmpegTimeoutError"

\* a release made while callers wait resolves the acquire of the one that
\* waited longest, and the holders are max again after it
HandOff ==
  \A r \in Requests :
     (clips'[r].releases > clips[r].releases /\ Queued # {}) =>
        /\ clips'[LongestWaiting].at = "granted"
        /\ Cardinality(Holders') = max
        /\ Queued' = Queued \ {LongestWaiting}

====
